---------------------------- MODULE Spec2Model ----------------------------
(***************************************************************************)
(* A model of the Lil front end: the lexer (src/src/lexer.rs), the parser  *)
(* (src/src/parser.rs), the syntax arena and its handles (src/src/ast.rs), *)
(* the type checker (src/src/typer.rs) and the interactive driver          *)
(* (src/src/main.rs).                                                      *)
(*                                                                         *)
(* Source text is a sequence of one-character strings; byte offsets are    *)
(* 0-based as in the source, so the character at offset o is inp[o + 1].   *)
(* An Option<T> is a sequence of length at most one: None is << >> and     *)
(* Some(t) is <<t>>.  Arena indices are 0-based: node i is ast[i + 1].     *)
(***************************************************************************)
EXTENDS Integers, Sequences, FiniteSets, TLC

VARIABLES
    input,      \* Lexer.input: the string slice being tokenized
    chars,      \* Lexer.chars: offset of the next character the iterator yields
    lookahead,  \* Lexer.lookahead: Option<Token>
    ast,        \* the AbstractSyntaxTree (arena): a sequence of nodes
    globals,    \* TypeChecker.globals: Env, a function from identifier text to Type
    handles,    \* the handles handed out so far, each with the node it was made for
    out,        \* history: the values returned so far, in call order
    ret,        \* history: the last call, its arguments, its result and its pre-state
    prog,       \* history: the declaration being built; in the driver, the lines read
    pc          \* where the program is; "aborted" after a panic

vars == <<input, chars, lookahead, ast, globals, handles, out, ret, prog, pc>>

\* ------------------------------------------------------------------------
\* Bounds of the model
\* ------------------------------------------------------------------------

\* Longest source text given to the lexer on its own.
MaxLen == 4
\* Most calls of next() made on one lexer.
MaxNexts == 5
\* Most lexemes in a source text given to the parser (declarations apart).
MaxLexemes == 3

\* ------------------------------------------------------------------------
\* Option and Result
\* ------------------------------------------------------------------------

None == << >>
Some(t) == <<t>>

Ok(v) == [kind |-> "Ok", val |-> v]
Err(e) == [kind |-> "Err", err |-> e]
\* A panic (todo!, panic!, a failed assert!, unwrap on None) unwinds the call.
Panic(m) == [kind |-> "Panic", msg |-> m]

\* let v = e; rest
Bind(v, rest(_)) == rest(v)
\* The ? operator: let v = r?; rest.  A failed call returns from the function
\* with its error (and the state the call left).
Try(r, rest(_)) == IF r.res.kind # "Ok" THEN r ELSE rest(r)

\* ------------------------------------------------------------------------
\* Characters
\* ------------------------------------------------------------------------

WhitespaceChars == {" ", "\t", "\n", "\r"}
DigitChars == {"0", "1", "2", "3", "4", "5", "6", "7", "8", "9"}
AsciiAlphabetic ==
    {"a", "b", "c", "d", "e", "f", "g", "h", "i", "j", "k", "l", "m",
     "n", "o", "p", "q", "r", "s", "t", "u", "v", "w", "x", "y", "z",
     "A", "B", "C", "D", "E", "F", "G", "H", "I", "J", "K", "L", "M",
     "N", "O", "P", "Q", "R", "S", "T", "U", "V", "W", "X", "Y", "Z"}

is_whitespace(c) == c \in WhitespaceChars
is_digit(c) == c \in DigitChars
is_identifier_start(c) == c \in AsciiAlphabetic \/ c = "_"
is_identifier_middle(c) == is_digit(c) \/ is_identifier_start(c)
\* The characters is_identifier_middle accepts.
IdentifierMiddleChars == DigitChars \cup AsciiAlphabetic \cup {"_"}

\* ------------------------------------------------------------------------
\* Tokens
\* ------------------------------------------------------------------------

\* usize::MAX, held at the largest integer TLC represents.
USIZE_MAX == 2147483647

Token(kind, start, content) == [kind |-> kind, start |-> start, content |-> content]

EOF == Token("EOF", USIZE_MAX, << >>)

\* Token::end: the offset just past the token.
Token_end(tok) == tok.start + Len(tok.content)

\* char::to_digit(10) of a decimal digit.
to_digit(c) == CHOOSE d \in 0 .. 9 : ToString(d) = c

I32_MAX == 2147483647

RECURSIVE parse_i32(_, _)
\* str::parse::<i32> on a run of decimal digits, from the value acc of the
\* digits before: every step is a checked multiplication and addition, and
\* the result is Err(PosOverflow) as soon as the value passes i32::MAX.
parse_i32(digits, acc) ==
    IF digits = << >> THEN Ok(acc)
    ELSE IF acc > (I32_MAX - to_digit(Head(digits))) \div 10
         THEN Err("PosOverflow")
         ELSE parse_i32(Tail(digits), acc * 10 + to_digit(Head(digits)))

\* Token::as_int: the assert on the kind, then content.parse().unwrap().
as_int(tok) ==
    IF tok.kind # "Integer"
    THEN Panic("assertion failed: self.kind == TokenType::Integer")
    ELSE IF tok.content = << >>
    THEN Panic("unwrap on Err(ParseIntError): Empty")
    ELSE IF parse_i32(tok.content, 0).kind = "Err"
    THEN Panic("unwrap on Err(ParseIntError): PosOverflow")
    ELSE parse_i32(tok.content, 0)

\* The keyword table of scan_identifier_or_keyword, as (content, kind) pairs.
KeywordTable ==
    { << <<"a","s","s","e","r","t">>, "Assert" >>,
      << <<"b","o","o","l">>, "Bool" >>,
      << <<"b","r","e","a","k">>, "Break" >>,
      << <<"c","a","s","e">>, "Case" >>,
      << <<"c","o","n","t","i","n","u","e">>, "Continue" >>,
      << <<"d","e","f","a","u","l","t">>, "Default" >>,
      << <<"D","o">>, "Do" >>,
      << <<"d","e","l","e","t","e">>, "Delete" >>,
      << <<"e","l","s","e">>, "Else" >>,
      << <<"f","a","l","s","e">>, "False" >>,
      << <<"f","o","r">>, "For" >>,
      << <<"i","f">>, "If" >>,
      << <<"i","8">>, "I8" >>,
      << <<"i","1","6">>, "I16" >>,
      << <<"i","3","2">>, "I32" >>,
      << <<"i","6","4">>, "I64" >>,
      << <<"n","e","w">>, "New" >>,
      << <<"n","u","l","l">>, "Null" >>,
      << <<"r","e","t","u","r","n">>, "Return" >>,
      << <<"s","k","i","p">>, "Skip" >>,
      << <<"s","w","i","t","c","h">>, "Switch" >>,
      << <<"t","r","u","e">>, "True" >>,
      << <<"t","y","p","e">>, "Type" >>,
      << <<"w","h","i","l","e">>, "While" >>,
      << <<"u","8">>, "U8" >>,
      << <<"u","1","6">>, "U16" >>,
      << <<"u","3","2">>, "U32" >>,
      << <<"u","6","4">>, "U64" >>,
      << <<"v","o","i","d">>, "Void" >> }

\* The match of scan_operator, as (character, kind) pairs.
OperatorTable ==
    { <<"&", "Ampersand">>, <<"|", "Bar">>, <<":", "Colon">>, <<",", "Comma">>,
      <<".", "Dot">>, <<"=", "Equal">>, <<"<", "LeftAngle">>, <<"(", "LeftBrace">>,
      <<"{", "LeftCurly">>, <<"[", "LeftSquare">>, <<"-", "Minus">>,
      <<"%", "Percent">>, <<"+", "Plus">>, <<">", "RightAngle">>,
      <<")", "RightBrace">>, <<"}", "RightCurly">>, <<"/", "RightSlash">>,
      <<"]", "RightSquare">>, <<";", "SemiColon">>, <<"!", "Shreak">>,
      <<"*", "Star">> }

\* ------------------------------------------------------------------------
\* Lexer.  A lexer state is a record [chars, lookahead]; every operation
\* returns the token together with the lexer state it leaves.
\* ------------------------------------------------------------------------

Lexer_new == [chars |-> 0, lookahead |-> None]

\* &self.input[start..end]
Slice(inp, start, end) == SubSeq(inp, start + 1, end)

\* A scan_whilst that gobbles one matching character at most.
scan_whilst_once(inp, L, accepted) ==
    Bind(IF L.chars < Len(inp) /\ inp[L.chars + 1] \in accepted
         THEN L.chars + 1 ELSE L.chars, LAMBDA end :
    [end |-> end, lex |-> [L EXCEPT !.chars = end]])

\* Gobble all characters matched by the acceptor, given as the set of the
\* characters it accepts: the offset of the first character from chars on
\* that is not accepted, or the length of the input.
scan_whilst(inp, L, accepted) ==
    Bind({o \in L.chars .. (Len(inp) - 1) : inp[o + 1] \notin accepted}, LAMBDA stops :
    Bind(IF stops = {} THEN Len(inp) ELSE CHOOSE o \in stops : \A q \in stops : o <= q,
         LAMBDA end :
    [end |-> end, lex |-> [L EXCEPT !.chars = end]]))

scan_integer(inp, L, start) ==
    Bind(scan_whilst(inp, L, DigitChars), LAMBDA w :
    [tok |-> Token("Integer", start, Slice(inp, start, w.end)), lex |-> w.lex])

scan_identifier_or_keyword(inp, L, start) ==
    Bind(scan_whilst(inp, L, IdentifierMiddleChars), LAMBDA w :
    Bind(Slice(inp, start, w.end), LAMBDA content :
    Bind(IF \E e \in KeywordTable : e[1] = content
         THEN (CHOOSE e \in KeywordTable : e[1] = content)[2]
         ELSE "Identifier", LAMBDA kind :
    [tok |-> Token(kind, start, content), lex |-> w.lex])))

\* A scan_operator that takes `==` as one EqualEqual token.
scan_operator_two_characters(inp, L, start, ch) ==
    IF ch = "=" /\ start + 1 < Len(inp) /\ inp[start + 2] = "="
    THEN [tok |-> Token("EqualEqual", start, Slice(inp, start, start + 2)),
          lex |-> [L EXCEPT !.chars = start + 2]]
    ELSE IF \E e \in OperatorTable : e[1] = ch
    THEN [tok |-> Token((CHOOSE e \in OperatorTable : e[1] = ch)[2], start,
                        Slice(inp, start, start + 1)),
          lex |-> L]
    ELSE [tok |-> EOF, lex |-> L]

scan_operator(inp, L, start, ch) ==
    IF \E e \in OperatorTable : e[1] = ch
    THEN [tok |-> Token((CHOOSE e \in OperatorTable : e[1] = ch)[2], start,
                        Slice(inp, start, start + 1)),
          lex |-> L]
    ELSE [tok |-> EOF, lex |-> L]

RECURSIVE next(_, _)

\* A scan_whitespace that takes the whitespace it dropped for the end of the
\* input.
scan_whitespace_to_eof(inp, L) ==
    [tok |-> EOF, lex |-> scan_whilst(inp, L, WhitespaceChars).lex]

\* Drop all following whitespace, then scan an actual token.
scan_whitespace(inp, L) ==
    next(inp, scan_whilst(inp, L, WhitespaceChars).lex)

scan(inp, L, start, ch) ==
    IF is_whitespace(ch) THEN scan_whitespace(inp, L)
    ELSE IF is_digit(ch) THEN scan_integer(inp, L, start)
    ELSE IF is_identifier_start(ch) THEN scan_identifier_or_keyword(inp, L, start)
    ELSE scan_operator(inp, L, start, ch)

\* A next() that hands out the lookahead without resetting it.
next_keeps_lookahead(inp, L) ==
    IF L.lookahead # None
    THEN [tok |-> L.lookahead[1], lex |-> L]
    ELSE IF L.chars >= Len(inp)
         THEN [tok |-> EOF, lex |-> L]
         ELSE scan(inp, [L EXCEPT !.chars = @ + 1], L.chars, inp[L.chars + 1])

next(inp, L) ==
    IF L.lookahead # None
    THEN [tok |-> L.lookahead[1], lex |-> [L EXCEPT !.lookahead = None]]
    ELSE IF L.chars >= Len(inp)
         THEN [tok |-> EOF, lex |-> L]
         ELSE scan(inp, [L EXCEPT !.chars = @ + 1], L.chars, inp[L.chars + 1])

\* A peek() that reads a token and forgets to keep it.
peek_without_cache(inp, L) ==
    IF L.lookahead = None
    THEN next(inp, L)
    ELSE [tok |-> L.lookahead[1], lex |-> L]

peek(inp, L) ==
    IF L.lookahead = None
    THEN Bind(next(inp, L), LAMBDA n :
              [tok |-> n.tok, lex |-> [n.lex EXCEPT !.lookahead = Some(n.tok)]])
    ELSE [tok |-> L.lookahead[1], lex |-> L]

\* The lexer of the current state.
Lex == [chars |-> chars, lookahead |-> lookahead]

\* ------------------------------------------------------------------------
\* The arena (AbstractSyntaxTree = SyntacticHeap<Node>) and its nodes.  A node
\* is a record with a tag and the payload of that variant; handles (Decl, Stmt,
\* Expr, Type, Name) are the arena indices they wrap.
\* ------------------------------------------------------------------------

\* SyntacticHeap::push: append the node, return its index.
push(a, node) == [ast |-> Append(a, node), index |-> Len(a)]

NO_CHILDREN == << >>

BoolType == [tag |-> "BoolType"]
NullType == [tag |-> "NullType"]
VoidType == [tag |-> "VoidType"]
IntType(signed, width) == [tag |-> "IntType", signed |-> signed, width |-> width]

\* Node::DeclType(name) pushed with the children [typ_e.index].
DeclType(name, children) == [tag |-> "DeclType", name |-> name, children |-> children]

\* ------------------------------------------------------------------------
\* Parser.  A parser state is a record [lex, ast]; every production returns its
\* Result together with the parser state it leaves.
\* ------------------------------------------------------------------------

\* An Error::new that takes the start of the token for its end as well.
Error_new_without_length(tok, message) ==
    [start |-> tok.start, end |-> tok.start, message |-> message]

\* parser::Error::new: the span of the token the production failed at.
Error_new(tok, message) ==
    [start |-> tok.start, end |-> Token_end(tok), message |-> message]

\* A snap that takes the token before it looks at its kind.
snap_consumes_always(inp, p, kind) ==
    Bind(next(inp, p.lex), LAMBDA n :
        IF n.tok.kind = kind
        THEN [res |-> Ok(n.tok), p |-> [p EXCEPT !.lex = n.lex]]
        ELSE [res |-> Err(Error_new(n.tok, "expected one thing, found another")),
              p |-> [p EXCEPT !.lex = n.lex]])

\* Match a given token type: on a match the stream advances, otherwise it
\* remains at the same position and an error is returned.
snap(inp, p, kind) ==
    Bind(peek(inp, p.lex), LAMBDA pk :
        IF pk.tok.kind = kind
        THEN [res |-> Ok(pk.tok), p |-> [p EXCEPT !.lex = next(inp, pk.lex).lex]]
        ELSE [res |-> Err(Error_new(pk.tok, "expected one thing, found another")),
              p |-> [p EXCEPT !.lex = pk.lex]])

parse_identifier(inp, p) ==
    Try(snap(inp, p, "Identifier"), LAMBDA tok :
    [res |-> Ok(tok.res.val.content), p |-> tok.p])

\* The match of parse_type_base, as (token kind, node) pairs.
BaseTypeTable ==
    { <<"Null", NullType>>, <<"Bool", BoolType>>,
      <<"I8", IntType(TRUE, 8)>>, <<"I16", IntType(TRUE, 16)>>,
      <<"I32", IntType(TRUE, 32)>>, <<"I64", IntType(TRUE, 64)>>,
      <<"U8", IntType(FALSE, 8)>>, <<"U16", IntType(FALSE, 16)>>,
      <<"U32", IntType(FALSE, 32)>>, <<"U64", IntType(FALSE, 64)>>,
      <<"Void", VoidType>> }

\* A parse_type_base that hands out the arena length after the push.
parse_type_base_index_after(inp, p) ==
    Bind(peek(inp, p.lex), LAMBDA pk :
        IF \E e \in BaseTypeTable : e[1] = pk.tok.kind
        THEN Bind(push(p.ast, (CHOOSE e \in BaseTypeTable : e[1] = pk.tok.kind)[2]),
                  LAMBDA pushed :
                  [res |-> Ok(Len(pushed.ast)),
                   p |-> [lex |-> next(inp, pk.lex).lex, ast |-> pushed.ast]])
        ELSE [res |-> Err(Error_new(pk.tok, "unknown token encountered")),
              p |-> [p EXCEPT !.lex = pk.lex]])

\* A parse_type_base that does not move over the keyword.
parse_type_base_keeps_token(inp, p) ==
    Bind(peek(inp, p.lex), LAMBDA pk :
        IF \E e \in BaseTypeTable : e[1] = pk.tok.kind
        THEN Bind(push(p.ast, (CHOOSE e \in BaseTypeTable : e[1] = pk.tok.kind)[2]),
                  LAMBDA pushed :
                  [res |-> Ok(pushed.index),
                   p |-> [lex |-> pk.lex, ast |-> pushed.ast]])
        ELSE [res |-> Err(Error_new(pk.tok, "unknown token encountered")),
              p |-> [p EXCEPT !.lex = pk.lex]])

parse_type_base(inp, p) ==
    Bind(peek(inp, p.lex), LAMBDA pk :
        IF \E e \in BaseTypeTable : e[1] = pk.tok.kind
        THEN Bind(push(p.ast, (CHOOSE e \in BaseTypeTable : e[1] = pk.tok.kind)[2]),
                  LAMBDA pushed :
                  [res |-> Ok(pushed.index),
                   p |-> [lex |-> next(inp, pk.lex).lex, ast |-> pushed.ast]])
        ELSE [res |-> Err(Error_new(pk.tok, "unknown token encountered")),
              p |-> [p EXCEPT !.lex = pk.lex]])

parse_type_compound(inp, p) ==
    Bind(peek(inp, p.lex), LAMBDA pk :
        IF pk.tok.kind = "EOF"
        THEN [res |-> Err(Error_new(pk.tok, "unexpected end-of-file")),
              p |-> [p EXCEPT !.lex = pk.lex]]
        ELSE parse_type_base(inp, [p EXCEPT !.lex = pk.lex]))

parse_type(inp, p) == parse_type_compound(inp, p)

\* Parse a type declaration `type name = type;`.
parse_decl_type(inp, p) ==
    Try(snap(inp, p, "Type"), LAMBDA start :
    Try(parse_identifier(inp, start.p), LAMBDA name :
    Try(snap(inp, name.p, "Equal"), LAMBDA eq :
    Try(parse_type(inp, eq.p), LAMBDA typ_e :
    Try(snap(inp, typ_e.p, "SemiColon"), LAMBDA end :
    Bind(push(end.p.ast, DeclType(name.res.val, <<typ_e.res.val>>)), LAMBDA pushed :
    [res |-> Ok(pushed.index), p |-> [end.p EXCEPT !.ast = pushed.ast]]))))))

\* todo!("reinstate me")
parse_decl_method(inp, p) ==
    [res |-> Panic("not yet implemented: reinstate me"), p |-> p]

\* Parse an arbitrary declaration.
parse_decl(inp, p) ==
    Bind(peek(inp, p.lex), LAMBDA pk :
        IF pk.tok.kind = "Type"
        THEN parse_decl_type(inp, [p EXCEPT !.lex = pk.lex])
        ELSE parse_decl_method(inp, [p EXCEPT !.lex = pk.lex]))

\* Parser::new
Parser_new(a) == [lex |-> Lexer_new, ast |-> a]

\* The parser of the current state.
Par == [lex |-> Lex, ast |-> ast]

\* ------------------------------------------------------------------------
\* Nodes of src/src/ast.rs and the handle constructors
\* ------------------------------------------------------------------------

Utf8(text) == [tag |-> "Utf8", text |-> text]
TypeDecl(name, type) == [tag |-> "TypeDecl", name |-> name, type |-> type]
Parameter(declared, name) == [declared |-> declared, name |-> name]
MethodDecl(name, rtype, params, body) ==
    [tag |-> "MethodDecl", name |-> name, ret |-> rtype, params |-> params, body |-> body]
AssertStmt(expr) == [tag |-> "AssertStmt", expr |-> expr]
BlockStmt(stmts) == [tag |-> "BlockStmt", stmts |-> stmts]
SkipStmt == [tag |-> "SkipStmt"]
BoolExpr(lit) == [tag |-> "BoolExpr", lit |-> lit]
IntExpr(lit) == [tag |-> "IntExpr", lit |-> lit]
VarExpr(name) == [tag |-> "VarExpr", name |-> name]
EqualsExpr(lhs, rhs) == [tag |-> "EqualsExpr", lhs |-> lhs, rhs |-> rhs]
NotEqualsExpr(lhs, rhs) == [tag |-> "NotEqualsExpr", lhs |-> lhs, rhs |-> rhs]
LessThanExpr(lhs, rhs) == [tag |-> "LessThanExpr", lhs |-> lhs, rhs |-> rhs]
ArrayType(elem) == [tag |-> "ArrayType", elem |-> elem]
ReferenceType(elem) == [tag |-> "ReferenceType", elem |-> elem]
\* fields: a sequence of <<type, name>> pairs
RecordType(fields) == [tag |-> "RecordType", fields |-> fields]

RECURSIVE SeqToSet(_)
SeqToSet(q) == IF q = << >> THEN {} ELSE {Head(q)} \cup SeqToSet(Tail(q))

\* The arena indices a node holds: its name, type, element, field, parameter,
\* body and operand handles, and the children slice the parser pushes with it.
Children(n) ==
    IF n.tag = "DeclType" THEN SeqToSet(n.children)
    ELSE IF n.tag = "TypeDecl" THEN {n.name, n.type}
    ELSE IF n.tag = "MethodDecl"
         THEN {n.name, n.ret, n.body}
              \cup {n.params[k].declared : k \in DOMAIN n.params}
              \cup {n.params[k].name : k \in DOMAIN n.params}
    ELSE IF n.tag = "AssertStmt" THEN {n.expr}
    ELSE IF n.tag = "BlockStmt" THEN SeqToSet(n.stmts)
    ELSE IF n.tag = "VarExpr" THEN {n.name}
    ELSE IF n.tag \in {"EqualsExpr", "NotEqualsExpr", "LessThanExpr"} THEN {n.lhs, n.rhs}
    ELSE IF n.tag \in {"ArrayType", "ReferenceType"} THEN {n.elem}
    ELSE IF n.tag = "RecordType"
         THEN {n.fields[k][1] : k \in DOMAIN n.fields}
              \cup {n.fields[k][2] : k \in DOMAIN n.fields}
    ELSE {}

\* Whether SyntacticHeap::get(i) finds a node (it panics otherwise).
InArena(a, i) == i >= 0 /\ i < Len(a)
get(a, i) == a[i + 1]

Decl_is(t) == t.tag \in {"MethodDecl", "TypeDecl"}
Stmt_is(t) == t.tag \in {"AssertStmt", "BlockStmt", "SkipStmt"}
Expr_is(t) ==
    t.tag \in {"BoolExpr", "EqualsExpr", "LessThanExpr", "NotEqualsExpr", "IntExpr", "VarExpr"}

RECURSIVE Type_is(_, _)
\* "true", "false", or "panic" when a child index is out of the arena.
Type_is(a, t) ==
    IF t.tag \in {"BoolType", "IntType", "NullType", "VoidType"} THEN "true"
    ELSE IF t.tag \in {"ArrayType", "ReferenceType"}
         THEN IF InArena(a, t.elem) THEN Type_is(a, get(a, t.elem)) ELSE "panic"
    ELSE IF t.tag = "RecordType"
         THEN IF t.fields = << >> THEN "true"
              ELSE LET f == Head(t.fields)
                       first == IF InArena(a, f[1]) THEN Type_is(a, get(a, f[1]))
                                ELSE "panic"
                   IN  IF first # "true" THEN first
                       ELSE Type_is(a, RecordType(Tail(t.fields)))
    ELSE "false"

\* Each constructor returns its Result (the handle's index) and the arena.
Decl_new(a, t) ==
    IF ~Decl_is(t) THEN [res |-> Panic("assertion failed: Decl::is(&t)"), ast |-> a]
    ELSE Bind(push(a, t), LAMBDA pushed : [res |-> Ok(pushed.index), ast |-> pushed.ast])

Stmt_new(a, t) ==
    IF ~Stmt_is(t) THEN [res |-> Panic("assertion failed: Stmt::is(&t)"), ast |-> a]
    ELSE Bind(push(a, t), LAMBDA pushed : [res |-> Ok(pushed.index), ast |-> pushed.ast])

Expr_new(a, t) ==
    IF ~Expr_is(t) THEN [res |-> Panic("assertion failed: Expr::is(&t)"), ast |-> a]
    ELSE Bind(push(a, t), LAMBDA pushed : [res |-> Ok(pushed.index), ast |-> pushed.ast])

Type_new(a, t) ==
    Bind(Type_is(a, t), LAMBDA is :
        IF is = "panic" THEN [res |-> Panic("index out of bounds"), ast |-> a]
        ELSE IF is = "false"
             THEN [res |-> Panic("assertion failed: Type::is(ast, &t)"), ast |-> a]
        ELSE Bind(push(a, t), LAMBDA pushed :
                  [res |-> Ok(pushed.index), ast |-> pushed.ast]))

\* A Name::new that hands out the arena length after the push.
Name_new_index_after(a, s) ==
    Bind(push(a, Utf8(s)), LAMBDA pushed : [res |-> Ok(Len(pushed.ast)), ast |-> pushed.ast])

Name_new(a, s) ==
    Bind(push(a, Utf8(s)), LAMBDA pushed : [res |-> Ok(pushed.index), ast |-> pushed.ast])

\* impl From<Ref<Node>> for Decl, Stmt, Type, Name: the handle of the index
\* the reference r has in the arena.  There is none for Expr.
Decl_from(a, r) == [res |-> Ok(r), ast |-> a]
Stmt_from(a, r) == [res |-> Ok(r), ast |-> a]
Type_from(a, r) == [res |-> Ok(r), ast |-> a]
Name_from(a, r) == [res |-> Ok(r), ast |-> a]

\* ------------------------------------------------------------------------
\* Type errors (src/src/error.rs)
\* ------------------------------------------------------------------------

SyntaxError(node, errno) == [node |-> node, errno |-> errno]
internal_failure(node, msg) == SyntaxError(node, [code |-> "InternalFailure", msg |-> msg])
expected_subtype(node) == SyntaxError(node, [code |-> "ExpectedSubtype"])
variable_not_found(node) == SyntaxError(node, [code |-> "VariableNotFound"])

\* ------------------------------------------------------------------------
\* Type checker.  Env is a function from identifier text to a Type handle;
\* every checking function returns its Result together with the arena.
\* ------------------------------------------------------------------------

Unit == "()"

\* HashMap::new
Env_new == << >>
\* HashMap::insert
Env_insert(env, k, v) == (k :> v) @@ env

\* The identifier text a Name handle stands for: the key of Env (a String).
NameText(a, n) == get(a, n).text

\* A check_boolean_literal that keeps its result in the first arena slot.
check_boolean_literal_in_place(a, env, literal) ==
    IF a = << >> THEN Type_new(a, BoolType)
    ELSE [res |-> Ok(0), ast |-> [a EXCEPT ![1] = BoolType]]

check_boolean_literal(a, env, literal) == Type_new(a, BoolType)

\* A check_integer_literal that gives a literal that is not negative an
\* unsigned type.
check_integer_literal_by_value(a, env, literal) ==
    Type_new(a, IntType(literal < 0, 32))

check_integer_literal(a, env, literal) == Type_new(a, IntType(TRUE, 32))

check_variable_access(a, env, name) ==
    IF name \in DOMAIN env
    THEN [res |-> Ok(env[name]), ast |-> a]
    ELSE [res |-> Panic("variable not found"), ast |-> a]

RECURSIVE check_type(_, _)
\* Check a declared type makes sense.
check_type(a, t) ==
    IF ~InArena(a, t) THEN [res |-> Panic("index out of bounds"), ast |-> a]
    ELSE LET n == get(a, t)
         IN  IF n.tag \in {"BoolType", "NullType", "IntType", "VoidType"}
             THEN [res |-> Ok(Unit), ast |-> a]
             ELSE IF n.tag \in {"ArrayType", "ReferenceType"}
             THEN check_type(a, n.elem)
             ELSE IF n.tag = "RecordType"
             THEN LET bad == {i \in 1 .. Len(n.fields) :
                                 check_type(a, n.fields[i][1]).res.kind # "Ok"}
                  IN  IF bad = {} THEN [res |-> Ok(Unit), ast |-> a]
                      ELSE check_type(a, n.fields[CHOOSE i \in bad :
                                                    \A j \in bad : i <= j][1])
             ELSE [res |-> Panic("do something"), ast |-> a]

RECURSIVE check_matching_types(_, _, _)
\* Check two types have identical structure.
check_matching_types(a, t1, t2) ==
    IF ~InArena(a, t1) \/ ~InArena(a, t2)
    THEN [res |-> Panic("index out of bounds"), ast |-> a]
    ELSE LET n1 == get(a, t1)
             n2 == get(a, t2)
         IN  IF n1.tag = "BoolType" /\ n2.tag = "BoolType" THEN [res |-> Ok(Unit), ast |-> a]
             ELSE IF n1.tag = "NullType" /\ n2.tag = "NullType"
             THEN [res |-> Ok(Unit), ast |-> a]
             ELSE IF /\ n1.tag = "IntType" /\ n2.tag = "IntType"
                     /\ n1.signed = n2.signed /\ n1.width = n2.width
             THEN [res |-> Ok(Unit), ast |-> a]
             ELSE IF n1.tag = "VoidType" /\ n2.tag = "VoidType"
             THEN [res |-> Ok(Unit), ast |-> a]
             ELSE IF n1.tag = "ArrayType" /\ n2.tag = "ArrayType"
             THEN check_matching_types(a, n1.elem, n2.elem)
             ELSE IF n1.tag = "ReferenceType" /\ n2.tag = "ReferenceType"
             THEN check_matching_types(a, n1.elem, n2.elem)
             ELSE [res |-> Panic("do something"), ast |-> a]

\* Check a given type is a boolean type.
check_bool_type(a, t) ==
    IF ~InArena(a, t) THEN [res |-> Panic("index out of bounds"), ast |-> a]
    ELSE IF get(a, t).tag = "BoolType" THEN [res |-> Ok(Unit), ast |-> a]
    ELSE [res |-> Panic("error, expected boolean"), ast |-> a]

\* Check a given type is an integer type.
check_int_type(a, t) ==
    IF ~InArena(a, t) THEN [res |-> Panic("index out of bounds"), ast |-> a]
    ELSE IF get(a, t).tag = "IntType" THEN [res |-> Ok(Unit), ast |-> a]
    ELSE [res |-> Panic("error, expected integer"), ast |-> a]

RECURSIVE check_expr(_, _, _)

check_lessthan_comparator(a, env, lhs, rhs) ==
    Try(check_expr(a, env, lhs), LAMBDA lhs_t :
    Try(check_expr(lhs_t.ast, env, rhs), LAMBDA rhs_t :
    Try(check_int_type(rhs_t.ast, lhs_t.res.val), LAMBDA is_int :
    Try(check_matching_types(is_int.ast, lhs_t.res.val, rhs_t.res.val), LAMBDA matching :
    Type_new(matching.ast, BoolType)))))

check_expr(a, env, expr) ==
    IF ~InArena(a, expr) THEN [res |-> Panic("index out of bounds"), ast |-> a]
    ELSE LET n == get(a, expr)
         IN  IF n.tag = "BoolExpr" THEN check_boolean_literal(a, env, n.lit)
             ELSE IF n.tag = "IntExpr" THEN check_integer_literal(a, env, n.lit)
             ELSE IF n.tag = "LessThanExpr"
             THEN check_lessthan_comparator(a, env, n.lhs, n.rhs)
             ELSE IF n.tag = "VarExpr"
             THEN check_variable_access(a, env, NameText(a, n.name))
             ELSE [res |-> Err(internal_failure(expr, "unknown expression")), ast |-> a]

check_assert(a, env, cond) ==
    Try(check_expr(a, env, cond), LAMBDA t :
    Try(check_bool_type(t.ast, t.res.val), LAMBDA is_bool :
    [res |-> Ok(Unit), ast |-> is_bool.ast]))

check_skip(a, env) == [res |-> Ok(Unit), ast |-> a]

RECURSIVE check_stmt(_, _, _)
RECURSIVE check_block(_, _, _)

\* A check_block that goes on with the rest after a statement that failed.
check_block_past_failure(a, env, stmts) ==
    IF stmts = << >> THEN [res |-> Ok(Unit), ast |-> a]
    ELSE Bind(check_stmt(a, env, Head(stmts)), LAMBDA first :
              check_block(first.ast, env, Tail(stmts)))

\* for stmt in stmts { self.check_stmt(env,stmt)?; } Ok(())
check_block(a, env, stmts) ==
    IF stmts = << >> THEN [res |-> Ok(Unit), ast |-> a]
    ELSE Try(check_stmt(a, env, Head(stmts)), LAMBDA first :
             check_block(first.ast, env, Tail(stmts)))

check_stmt(a, env, stmt) ==
    IF ~InArena(a, stmt) THEN [res |-> Panic("index out of bounds"), ast |-> a]
    ELSE LET n == get(a, stmt)
         IN  IF n.tag = "AssertStmt" THEN check_assert(a, env, n.expr)
             ELSE IF n.tag = "BlockStmt" THEN check_block(a, env, n.stmts)
             ELSE IF n.tag = "SkipStmt" THEN check_skip(a, env)
             ELSE [res |-> Err(internal_failure(0, "unknown statement")), ast |-> a]

\* Parameters allocated under the arena index of their name node instead of
\* its text.
bind_parameters_by_handle(a, env, params) ==
    LET keys == {ToString(params[k].name) : k \in DOMAIN params}
        last(key) == CHOOSE k \in DOMAIN params :
                         /\ ToString(params[k].name) = key
                         /\ \A j \in k + 1 .. Len(params) : ToString(params[j].name) # key
    IN  [key \in keys \cup DOMAIN env |->
            IF key \in keys THEN params[last(key)].declared ELSE env[key]]

RECURSIVE bind_parameters(_, _, _)
\* for p in params { env.insert(p.name.clone(),p.declared); }
bind_parameters(a, env, params) ==
    IF params = << >> THEN env
    ELSE bind_parameters(a, Env_insert(env, NameText(a, Head(params).name),
                                       Head(params).declared), Tail(params))

\* What a method of the checker returns together with the self.globals it
\* leaves behind.
Leaving(r, g) == [res |-> r.res, ast |-> r.ast, globals |-> g]

\* check_method allocating the parameters into self.globals itself.
check_method_without_clone(a, g, name, rtype, params, body) ==
    Bind(bind_parameters(a, g, params), LAMBDA env :
    Leaving(Try(check_stmt(a, env, body), LAMBDA nbody :
                [res |-> Ok(Unit), ast |-> nbody.ast]), env))

\* The parameters go into env, a clone of self.globals.
check_method(a, g, name, rtype, params, body) ==
    Bind(bind_parameters(a, g, params), LAMBDA env :
    Leaving(Try(check_stmt(a, env, body), LAMBDA nbody :
                [res |-> Ok(Unit), ast |-> nbody.ast]), g))

check_type_alias(a, name, alias) ==
    Try(check_type(a, alias), LAMBDA t : [res |-> Ok(Unit), ast |-> t.ast])

\* TypeChecker::check
check(a, g, d) ==
    IF ~InArena(a, d) THEN [res |-> Panic("index out of bounds"), ast |-> a, globals |-> g]
    ELSE LET n == get(a, d)
         IN  IF n.tag = "TypeDecl" THEN Leaving(check_type_alias(a, n.name, n.type), g)
             ELSE IF n.tag = "MethodDecl"
             THEN check_method(a, g, n.name, n.ret, n.params, n.body)
             ELSE [res |-> Err(internal_failure(0, "unknown declaration")), ast |-> a,
                   globals |-> g]

\* ------------------------------------------------------------------------
\* The lexer on its own: any sequence of peek() and next() on any short input
\* ------------------------------------------------------------------------

LexAlphabet == {" ", "1", "i", "f", "_", "=", "#"}

RECURSIVE SeqsUpTo(_, _)
\* All sequences over S of length at most n.
SeqsUpTo(S, n) ==
    IF n = 0 THEN {<< >>}
    ELSE LET shorter == SeqsUpTo(S, n - 1)
         IN  shorter \cup {Append(s, x) : s \in shorter, x \in S}

NoCall == [op |-> "none"]

LexInit ==
    /\ input \in SeqsUpTo(LexAlphabet, MaxLen)
    /\ chars = Lexer_new.chars
    /\ lookahead = Lexer_new.lookahead
    /\ ast = << >>
    /\ globals = << >>
    /\ handles = << >>
    /\ out = << >>
    /\ ret = NoCall
    /\ prog = NoCall
    /\ pc = "run"

LexPeek ==
    /\ pc = "run"
    /\ LET r == peek(input, Lex)
       IN  /\ chars' = r.lex.chars
           /\ lookahead' = r.lex.lookahead
           /\ ret' = [op |-> "peek", tok |-> r.tok, peeked |-> lookahead # None,
                      from |-> chars]
    /\ UNCHANGED <<input, ast, globals, handles, out, prog, pc>>

LexNext ==
    /\ pc = "run"
    /\ Len(out) < MaxNexts
    /\ LET r == next(input, Lex)
       IN  /\ chars' = r.lex.chars
           /\ lookahead' = r.lex.lookahead
           /\ out' = Append(out, r.tok)
           /\ ret' = [op |-> "next", tok |-> r.tok, peeked |-> lookahead # None,
                      from |-> chars]
    /\ UNCHANGED <<input, ast, globals, handles, prog, pc>>

LexStep == LexPeek \/ LexNext

SpecLexer == LexInit /\ [][LexStep]_vars

\* ------------------------------------------------------------------------
\* The lexer on punctuation: any sequence of peek() and next() on any short
\* input made of the characters the two-character operators are spelt with
\* ------------------------------------------------------------------------

\* The longest input of punctuation.
MaxOps == 3

\* The characters of == != <= >= && || -> // and the blank.
OperatorAlphabet == {"=", "!", "<", ">", "&", "|", "-", "/", " "}

OperatorsInit ==
    /\ input \in SeqsUpTo(OperatorAlphabet, MaxOps)
    /\ chars = Lexer_new.chars
    /\ lookahead = Lexer_new.lookahead
    /\ ast = << >>
    /\ globals = << >>
    /\ handles = << >>
    /\ out = << >>
    /\ ret = NoCall
    /\ prog = NoCall
    /\ pc = "run"

SpecOperators == OperatorsInit /\ [][LexStep]_vars

\* ------------------------------------------------------------------------
\* The lexer on one token between whitespace: any sequence of peek() and
\* next() on whitespace, one token or nothing, and whitespace again
\* ------------------------------------------------------------------------

\* The longest run of whitespace on either side.
MaxPad == 2

\* Spaces, tabs and newlines.
PadAlphabet == {" ", "\t", "\n"}

\* One token of each kind of scan, or nothing.
Cores == {<< >>, <<"1", "0">>, <<"i", "f">>, <<"x", "_", "1">>, <<"=">>}

\* prog keeps the three parts the input was put together from.
PaddedInit ==
    /\ \E before \in SeqsUpTo(PadAlphabet, MaxPad), core \in Cores,
          after \in SeqsUpTo(PadAlphabet, MaxPad) :
            /\ input = before \o core \o after
            /\ prog = [before |-> before, core |-> core, after |-> after]
    /\ chars = Lexer_new.chars
    /\ lookahead = Lexer_new.lookahead
    /\ ast = << >>
    /\ globals = << >>
    /\ handles = << >>
    /\ out = << >>
    /\ ret = NoCall
    /\ pc = "run"

SpecPadded == PaddedInit /\ [][LexStep]_vars

\* ------------------------------------------------------------------------
\* The lexer on integers: peek() and next() on a run of digits, and as_int()
\* on the token returned last
\* ------------------------------------------------------------------------

\* The longest run of digits.
MaxDigits == 10

\* Runs around the largest i32.
BoundaryRuns ==
    { <<"2","1","4","7","4","8","3","6","4","7">>,
      <<"2","1","4","7","4","8","3","6","4","8">>,
      <<"2","1","4","7","4","8","3","6","5","0">>,
      <<"0","2","1","4","7","4","8","3","6","4","7">> }

IntegersInit ==
    /\ input \in (SeqsUpTo({"0", "9"}, MaxDigits) \ {<< >>}) \cup BoundaryRuns
    /\ chars = Lexer_new.chars
    /\ lookahead = Lexer_new.lookahead
    /\ ast = << >>
    /\ globals = << >>
    /\ handles = << >>
    /\ out = << >>
    /\ ret = NoCall
    /\ prog = NoCall
    /\ pc = "run"

\* tok.as_int() on the token the last peek() or next() returned.
AsInt ==
    /\ pc = "run"
    /\ ret.op \in {"peek", "next"}
    /\ ret' = [op |-> "as_int", tok |-> ret.tok, res |-> as_int(ret.tok)]
    /\ pc' = IF as_int(ret.tok).kind = "Panic" THEN "aborted" ELSE "run"
    /\ UNCHANGED <<input, chars, lookahead, ast, globals, handles, out, prog>>

IntegersStep == LexPeek \/ LexNext \/ AsInt

SpecIntegers == IntegersInit /\ [][IntegersStep]_vars

\* ------------------------------------------------------------------------
\* The lexer on words: any sequence of peek() and next() on one word, alone
\* or between blanks
\* ------------------------------------------------------------------------

\* Words that are no keyword in any spelling, or a keyword in another case.
OtherWords ==
    { <<"a","b","c">>, <<"I","f">>, <<"d","o">>, <<"D","o">>, <<"i","7">>,
      <<"i","f","_">>, <<"T","r","u","e">> }

Words == {e[1] : e \in KeywordTable} \cup OtherWords

WordsInit ==
    /\ input \in Words \cup {<<" ">> \o w \o <<" ">> : w \in Words}
    /\ chars = Lexer_new.chars
    /\ lookahead = Lexer_new.lookahead
    /\ ast = << >>
    /\ globals = << >>
    /\ handles = << >>
    /\ out = << >>
    /\ ret = NoCall
    /\ prog = NoCall
    /\ pc = "run"

SpecWords == WordsInit /\ [][LexStep]_vars

\* ------------------------------------------------------------------------
\* The parser on one source text: any sequence of calls of its productions
\* ------------------------------------------------------------------------

W_type == <<"t", "y", "p", "e", " ">>
W_void == <<"v", "o", "i", "d", " ">>
W_bool == <<"b", "o", "o", "l">>
W_i32 == <<"i", "3", "2">>

\* The pieces short source texts are made of.
Lexemes == {W_type, <<"t">>, <<"=">>, W_bool, <<";">>, <<"&">>, <<"#">>}

RECURSIVE Flatten(_)
\* The concatenation of a sequence of sequences.
Flatten(ss) == IF ss = << >> THEN << >> ELSE Head(ss) \o Flatten(Tail(ss))

\* A type declaration with any of its five parts left out or replaced, with
\* and without leading whitespace.
DeclInputs ==
    { Flatten(<<pad, kw, name, eq, typ, semi>>) :
        pad \in {<< >>, <<" ">>},
        kw \in {W_type, W_void, << >>},
        name \in {<<"t">>, << >>},
        eq \in {<<"=">>, << >>},
        typ \in {W_bool, W_i32, <<"&">> \o W_bool, W_bool \o <<"[", "]">>,
                 <<"{">> \o W_i32 \o <<" ", "f", "}">>, << >>},
        semi \in {<<";">>, << >>} }

ParseInputs ==
    {Flatten(ls) : ls \in SeqsUpTo(Lexemes, MaxLexemes)} \cup DeclInputs

SnapKinds == {"Type", "Identifier", "Equal", "SemiColon"}

ParseInit ==
    /\ input \in ParseInputs
    /\ chars = Lexer_new.chars
    /\ lookahead = Lexer_new.lookahead
    /\ ast = << >>
    /\ globals = Env_new
    /\ handles = << >>
    /\ out = << >>
    /\ ret = NoCall
    /\ prog = NoCall
    /\ pc = "run"

\* The effect of a call of a production that returned r.
Called(op, arg, r) ==
    /\ chars' = r.p.lex.chars
    /\ lookahead' = r.p.lex.lookahead
    /\ ast' = r.p.ast
    /\ ret' = [op |-> op, arg |-> arg, res |-> r.res, pre |-> Par]
    /\ pc' = IF r.res.kind = "Panic" THEN "aborted" ELSE "run"
    /\ UNCHANGED <<input, globals, handles, out, prog>>

Snap(kind) == pc = "run" /\ Called("snap", kind, snap(input, Par, kind))

ParseIdentifier == pc = "run" /\ Called("parse_identifier", "", parse_identifier(input, Par))

ParseTypeBase == pc = "run" /\ Called("parse_type_base", "", parse_type_base(input, Par))

ParseType == pc = "run" /\ Called("parse_type", "", parse_type(input, Par))

ParseDeclType == pc = "run" /\ Called("parse_decl_type", "", parse_decl_type(input, Par))

ParseDecl == pc = "run" /\ Called("parse_decl", "", parse_decl(input, Par))

ParseStep ==
    \/ \E kind \in SnapKinds : Snap(kind)
    \/ ParseIdentifier
    \/ ParseTypeBase
    \/ ParseType
    \/ ParseDeclType
    \/ ParseDecl

SpecParser == ParseInit /\ [][ParseStep]_vars

\* ------------------------------------------------------------------------
\* Handles: an arena filled through the constructors with nodes of any
\* category, and references into it converted into handles
\* ------------------------------------------------------------------------

\* The arena holds at most this many nodes.
MaxHandleNodes == 3

\* Nodes to construct a handle for: one without children of each category,
\* and nodes over a node of the arena.
NodesOver(a) ==
    {SkipStmt, BoolExpr(TRUE), BoolType}
        \cup UNION {{ArrayType(i), ReferenceType(i), RecordType(<<<<i, i>>>>),
                     AssertStmt(i), TypeDecl(i, i)} : i \in 0 .. Len(a) - 1}

HandlesInit ==
    /\ input = << >>
    /\ chars = Lexer_new.chars
    /\ lookahead = Lexer_new.lookahead
    /\ ast = << >>
    /\ globals = Env_new
    /\ handles = << >>
    /\ out = << >>
    /\ ret = NoCall
    /\ prog = NoCall
    /\ pc = "handles"

\* The effect of X::new(ast, node) that returned r.
Constructed(kind, node, r) ==
    /\ Len(ast) < MaxHandleNodes
    /\ ast' = r.ast
    /\ ret' = [op |-> "new", kind |-> kind, arg |-> node, res |-> r.res, pre |-> ast]
    /\ handles' = IF r.res.kind = "Ok"
                  THEN Append(handles, [kind |-> kind, index |-> r.res.val])
                  ELSE handles
    /\ pc' = IF r.res.kind = "Panic" THEN "aborted" ELSE "handles"
    /\ UNCHANGED <<input, chars, lookahead, globals, out, prog>>

NewDecl(node) == pc = "handles" /\ Constructed("Decl", node, Decl_new(ast, node))
NewStmt(node) == pc = "handles" /\ Constructed("Stmt", node, Stmt_new(ast, node))
NewExpr(node) == pc = "handles" /\ Constructed("Expr", node, Expr_new(ast, node))
NewType(node) == pc = "handles" /\ Constructed("Type", node, Type_new(ast, node))
NewName(s) == pc = "handles" /\ Constructed("Name", Utf8(s), Name_new(ast, s))

\* The effect of X::from(r) for the reference to node i that returned h.
Converted(kind, i, h) ==
    /\ ret' = [op |-> "from", kind |-> kind, arg |-> i, res |-> h.res, pre |-> ast]
    /\ UNCHANGED <<input, chars, lookahead, ast, globals, handles, out, prog, pc>>

DeclFrom(i) == pc = "handles" /\ Converted("Decl", i, Decl_from(ast, i))
StmtFrom(i) == pc = "handles" /\ Converted("Stmt", i, Stmt_from(ast, i))
TypeFrom(i) == pc = "handles" /\ Converted("Type", i, Type_from(ast, i))
NameFrom(i) == pc = "handles" /\ Converted("Name", i, Name_from(ast, i))

HandlesStep ==
    \/ \E node \in NodesOver(ast) : NewDecl(node)
    \/ \E node \in NodesOver(ast) : NewStmt(node)
    \/ \E node \in NodesOver(ast) : NewExpr(node)
    \/ \E node \in NodesOver(ast) : NewType(node)
    \/ NewName("f")
    \/ \E i \in 0 .. Len(ast) - 1 : DeclFrom(i)
    \/ \E i \in 0 .. Len(ast) - 1 : StmtFrom(i)
    \/ \E i \in 0 .. Len(ast) - 1 : TypeFrom(i)
    \/ \E i \in 0 .. Len(ast) - 1 : NameFrom(i)

SpecHandles == HandlesInit /\ [][HandlesStep]_vars

\* ------------------------------------------------------------------------
\* The parser on words: any sequence of calls of its productions on a source
\* text of base-type keywords and other tokens, one blank between them
\* ------------------------------------------------------------------------

\* The most words in such a source text.
MaxWords == 2

\* The keywords parse_type_base has an arm for.
BaseTypeWords ==
    {k[1] : k \in {e \in KeywordTable : \E b \in BaseTypeTable : b[1] = e[2]}}

\* Tokens it has no arm for: an identifier, another keyword, an operator, an
\* integer and a character that is no token.
OtherTokens == {<<"x">>, <<"t", "y", "p", "e">>, <<"=">>, <<"7">>, <<"#">>}

RECURSIVE Spaced(_)
\* The words with one blank between them.
Spaced(ws) ==
    IF ws = << >> THEN << >>
    ELSE IF Len(ws) = 1 THEN ws[1]
    ELSE ws[1] \o <<" ">> \o Spaced(Tail(ws))

BaseTypeInit ==
    /\ input \in {Spaced(ws) : ws \in SeqsUpTo(BaseTypeWords \cup OtherTokens, MaxWords)}
    /\ chars = Lexer_new.chars
    /\ lookahead = Lexer_new.lookahead
    /\ ast = << >>
    /\ globals = Env_new
    /\ handles = << >>
    /\ out = << >>
    /\ ret = NoCall
    /\ prog = NoCall
    /\ pc = "run"

SpecBaseTypes == BaseTypeInit /\ [][ParseStep]_vars

\* ------------------------------------------------------------------------
\* The arena and the type checker.  A method declaration is built node by
\* node through the handle constructors, in the order a bottom-up parse
\* pushes them (return type, name, parameters, then for every statement its
\* operands before the statement, then the block and the declaration); the
\* type checker is then called on what was built.
\* ------------------------------------------------------------------------

\* The arena holds at most this many nodes when the declaration is complete.
MaxNodes == 12

\* One type checker is asked to check at most this many declarations.
MaxDecls == 2

ParamTypes == {BoolType, IntType(TRUE, 32), IntType(FALSE, 8)}
Identifiers == {"b", "i"}
Literals == {BoolExpr(TRUE), IntExpr(0)}

NoProgram ==
    [name |-> None, ret |-> None, params |-> << >>, stack |-> << >>,
     stmts |-> << >>, exprs |-> {}, decl |-> None]

TyperInit ==
    /\ input = << >>
    /\ chars = Lexer_new.chars
    /\ lookahead = Lexer_new.lookahead
    /\ ast = << >>
    /\ globals = Env_new
    /\ handles = << >>
    /\ out = << >>
    /\ ret = NoCall
    /\ prog = NoProgram
    /\ pc = "header"

\* What a constructor call that returned r for the node has handed out, and
\* the length of the arena it left.
Handle(r, node) == [index |-> r.res.val, node |-> node, size |-> Len(r.ast)]

\* Room for k more nodes besides the block and the declaration.
Room(k) == Len(ast) + k + 2 <= MaxNodes

\* type t = <type>
BuildTypeDecl(type) ==
    /\ pc = "header"
    /\ Len(ast) + 3 <= MaxNodes
    /\ LET n == Name_new(ast, "t")
           t == Type_new(n.ast, type)
           alias == TypeDecl(n.res.val, t.res.val)
           d == Decl_new(t.ast, alias)
       IN  /\ ast' = d.ast
           /\ handles' = handles \o <<Handle(n, Utf8("t")), Handle(t, type),
                                       Handle(d, alias)>>
           /\ prog' = [prog EXCEPT !.decl = Some(d.res.val)]
    /\ pc' = "check"
    /\ UNCHANGED <<input, chars, lookahead, globals, out, ret>>

\* void f
BuildHeader ==
    /\ pc = "header"
    /\ Room(2)
    /\ LET t == Type_new(ast, VoidType)
           n == Name_new(t.ast, "f")
       IN  /\ ast' = n.ast
           /\ handles' = handles \o <<Handle(t, VoidType), Handle(n, Utf8("f"))>>
           /\ prog' = [prog EXCEPT !.ret = Some(t.res.val), !.name = Some(n.res.val)]
    /\ pc' = "params"
    /\ UNCHANGED <<input, chars, lookahead, globals, out, ret>>

\* A parameter `type name`.
BuildParameter(type, name) ==
    /\ pc = "params"
    /\ Room(2)
    /\ LET t == Type_new(ast, type)
           n == Name_new(t.ast, name)
       IN  /\ ast' = n.ast
           /\ handles' = handles \o <<Handle(t, type), Handle(n, Utf8(name))>>
           /\ prog' = [prog EXCEPT !.params = Append(@, Parameter(t.res.val, n.res.val))]
    /\ UNCHANGED <<input, chars, lookahead, globals, out, ret, pc>>

\* ) {
BeginBody ==
    /\ pc = "params"
    /\ pc' = "body"
    /\ UNCHANGED <<input, chars, lookahead, ast, globals, handles, out, ret, prog>>

\* A literal term.
BuildLiteral(lit) ==
    /\ pc = "body"
    /\ Len(prog.stack) < 2
    /\ Room(1)
    /\ LET e == Expr_new(ast, lit)
       IN  /\ ast' = e.ast
           /\ handles' = Append(handles, Handle(e, lit))
           /\ prog' = [prog EXCEPT !.stack = Append(@, e.res.val),
                                   !.exprs = @ \cup {e.res.val}]
    /\ UNCHANGED <<input, chars, lookahead, globals, out, ret, pc>>

\* A variable access term: the identifier, then the VarExpr holding it.
BuildVariable(name) ==
    /\ pc = "body"
    /\ Len(prog.stack) < 2
    /\ Room(2)
    /\ LET n == Name_new(ast, name)
           e == Expr_new(n.ast, VarExpr(n.res.val))
       IN  /\ ast' = e.ast
           /\ handles' = handles \o <<Handle(n, Utf8(name)), Handle(e, VarExpr(n.res.val))>>
           /\ prog' = [prog EXCEPT !.stack = Append(@, e.res.val),
                                   !.exprs = @ \cup {e.res.val}]
    /\ UNCHANGED <<input, chars, lookahead, globals, out, ret, pc>>

\* lhs < rhs over the two operands built last.
BuildLessThan ==
    /\ pc = "body"
    /\ Len(prog.stack) = 2
    /\ Room(1)
    /\ LET node == LessThanExpr(prog.stack[1], prog.stack[2])
           e == Expr_new(ast, node)
       IN  /\ ast' = e.ast
           /\ handles' = Append(handles, Handle(e, node))
           /\ prog' = [prog EXCEPT !.stack = <<e.res.val>>, !.exprs = @ \cup {e.res.val}]
    /\ UNCHANGED <<input, chars, lookahead, globals, out, ret, pc>>

\* lhs == rhs over the two operands built last.
BuildEquals ==
    /\ pc = "body"
    /\ Len(prog.stack) = 2
    /\ Room(1)
    /\ LET node == EqualsExpr(prog.stack[1], prog.stack[2])
           e == Expr_new(ast, node)
       IN  /\ ast' = e.ast
           /\ handles' = Append(handles, Handle(e, node))
           /\ prog' = [prog EXCEPT !.stack = <<e.res.val>>, !.exprs = @ \cup {e.res.val}]
    /\ UNCHANGED <<input, chars, lookahead, globals, out, ret, pc>>

\* assert expr;
BuildAssert ==
    /\ pc = "body"
    /\ Len(prog.stack) = 1
    /\ Room(1)
    /\ LET node == AssertStmt(prog.stack[1])
           st == Stmt_new(ast, node)
       IN  /\ ast' = st.ast
           /\ handles' = Append(handles, Handle(st, node))
           /\ prog' = [prog EXCEPT !.stack = << >>, !.stmts = Append(@, st.res.val)]
    /\ UNCHANGED <<input, chars, lookahead, globals, out, ret, pc>>

\* skip;
BuildSkip ==
    /\ pc = "body"
    /\ prog.stack = << >>
    /\ Room(1)
    /\ LET st == Stmt_new(ast, SkipStmt)
       IN  /\ ast' = st.ast
           /\ handles' = Append(handles, Handle(st, SkipStmt))
           /\ prog' = [prog EXCEPT !.stmts = Append(@, st.res.val)]
    /\ UNCHANGED <<input, chars, lookahead, globals, out, ret, pc>>

\* } : the block and the method declaration.
EndBody ==
    /\ pc = "body"
    /\ prog.stack = << >>
    /\ LET block == BlockStmt(prog.stmts)
           b == Stmt_new(ast, block)
           method == MethodDecl(prog.name[1], prog.ret[1], prog.params, b.res.val)
           d == Decl_new(b.ast, method)
       IN  /\ ast' = d.ast
           /\ handles' = handles \o <<Handle(b, block), Handle(d, method)>>
           /\ prog' = [prog EXCEPT !.decl = Some(d.res.val)]
    /\ pc' = "check"
    /\ UNCHANGED <<input, chars, lookahead, globals, out, ret>>

\* The environment check_method checks the body in.
MethodEnv == bind_parameters(ast, globals, prog.params)

\* The effect of a call of the type checker that returned r.
Checked(op, arg, r) ==
    /\ ast' = r.ast
    /\ ret' = [op |-> op, arg |-> arg, res |-> r.res, pre |-> ast]
    /\ pc' = IF r.res.kind = "Panic" THEN "aborted" ELSE "done"
    /\ UNCHANGED <<input, chars, lookahead, globals, handles, out, prog>>

\* TypeChecker::new(ast, mapper).check(d), and check(d) again on the same
\* checker for a later declaration; out lists the calls that returned.
TyperCheck ==
    /\ pc = "check"
    /\ LET d == prog.decl[1]
           r == check(ast, globals, d)
       IN  /\ ast' = r.ast
           /\ globals' = r.globals
           /\ ret' = [op |-> "check", arg |-> d, res |-> r.res, pre |-> ast]
           /\ out' = IF r.res.kind = "Panic" THEN out
                     ELSE Append(out, [decl |-> d, res |-> r.res])
           /\ pc' = IF r.res.kind = "Panic" THEN "aborted" ELSE "done"
    /\ UNCHANGED <<input, chars, lookahead, handles, prog>>

\* The caller goes on to build the next declaration in the same arena.
NextDeclaration ==
    /\ pc = "done"
    /\ ret.op = "check"
    /\ Len(out) < MaxDecls
    /\ Len(ast) + 3 <= MaxNodes
    /\ prog' = NoProgram
    /\ ret' = NoCall
    /\ pc' = "header"
    /\ UNCHANGED <<input, chars, lookahead, ast, globals, handles, out>>

\* check_method's call on the body, taken statement list first.
TyperCheckBlock ==
    /\ pc = "check"
    /\ prog.name # None
    /\ Checked("check_block", prog.stmts, check_block(ast, MethodEnv, prog.stmts))

TyperCheckStmt(stmt) ==
    /\ pc = "check"
    /\ Checked("check_stmt", stmt, check_stmt(ast, MethodEnv, stmt))

TyperCheckAssert(stmt) ==
    /\ pc = "check"
    /\ Checked("check_assert", get(ast, stmt).expr,
               check_assert(ast, MethodEnv, get(ast, stmt).expr))

TyperCheckExpr(expr) ==
    /\ pc = "check"
    /\ Checked("check_expr", expr, check_expr(ast, MethodEnv, expr))

TyperStep ==
    \/ \E type \in ParamTypes : BuildTypeDecl(type)
    \/ BuildHeader
    \/ \E type \in ParamTypes, name \in Identifiers : BuildParameter(type, name)
    \/ BeginBody
    \/ \E lit \in Literals : BuildLiteral(lit)
    \/ \E name \in Identifiers : BuildVariable(name)
    \/ BuildLessThan
    \/ BuildEquals
    \/ BuildAssert
    \/ BuildSkip
    \/ EndBody
    \/ TyperCheck
    \/ NextDeclaration
    \/ TyperCheckBlock
    \/ \E stmt \in SeqToSet(prog.stmts) : TyperCheckStmt(stmt)
    \/ \E stmt \in {st \in SeqToSet(prog.stmts) : get(ast, st).tag = "AssertStmt"} :
           TyperCheckAssert(stmt)
    \/ \E expr \in prog.exprs : TyperCheckExpr(expr)

SpecTyper == TyperInit /\ [][TyperStep]_vars

\* ------------------------------------------------------------------------
\* The interactive driver (repl of src/src/main.rs): one arena, made before
\* the loop; every iteration reads a line into the buffer, parses one
\* declaration of it, prints the error if there is one, and clears the buffer
\* ------------------------------------------------------------------------

\* The driver reads at most this many lines.
MaxLines == 3

NewLine == <<"\n">>

\* The lines the driver is given; the empty one is what read_line leaves in
\* the buffer at the end of the input.
ReplLines ==
    { W_type \o <<"t", "=">> \o W_bool \o <<";">> \o NewLine,
      W_type \o <<"t", "=">> \o W_i32 \o <<";">> \o NewLine,
      W_type \o <<"t", "=">> \o W_bool \o NewLine,
      W_type \o <<"t">> \o NewLine,
      W_void \o NewLine,
      << >> }

ReplInit ==
    /\ input = << >>
    /\ chars = Lexer_new.chars
    /\ lookahead = Lexer_new.lookahead
    /\ ast = << >>
    /\ globals = Env_new
    /\ handles = << >>
    /\ out = << >>
    /\ ret = NoCall
    /\ prog = << >>
    /\ pc = "prompt"

\* print_error: the line `error:{start}: {message}`, the input line, and the
\* highlight of end - start carets.
print_error(line, err) ==
    [text |-> <<"error:", err.start, ": ", err.message>>,
     line |-> line,
     carets |-> IF err.end > err.start THEN err.end - err.start ELSE 0]

\* stdin.read_line(&mut input): the line is appended to the buffer.
ReadLine(line) ==
    /\ pc = "prompt"
    /\ Len(prog) < MaxLines
    /\ input' = input \o line
    /\ prog' = Append(prog, line)
    /\ pc' = "parse"
    /\ UNCHANGED <<chars, lookahead, ast, globals, handles, out, ret>>

\* Parser::new(line, &mut ast, ..).parse_decl(), print_error, input.clear()
ParseLine ==
    /\ pc = "parse"
    /\ LET d == parse_decl(input, Parser_new(ast))
       IN  /\ ast' = d.p.ast
           /\ ret' = [op |-> "parse_line", arg |-> input, res |-> d.res, pre |-> ast]
           /\ IF d.res.kind = "Panic"
              THEN pc' = "aborted" /\ UNCHANGED <<input, out>>
              ELSE /\ out' = IF d.res.kind = "Err"
                             THEN Append(out, print_error(input, d.res.err))
                             ELSE out
                   /\ input' = << >>
                   /\ pc' = "prompt"
    /\ UNCHANGED <<chars, lookahead, globals, handles, prog>>

ReplStep ==
    \/ \E line \in ReplLines : ReadLine(line)
    \/ ParseLine

SpecRepl == ReplInit /\ [][ReplStep]_vars

\* ------------------------------------------------------------------------
\* Types on their own: an arena of types is built through Type::new and
\* Name::new, an element before the type that holds it, and the checks of
\* types are called on the handles
\* ------------------------------------------------------------------------

\* The arena of types holds at most this many nodes.
MaxTypeNodes == 4

BaseTypes == {BoolType, IntType(TRUE, 32), IntType(FALSE, 8)}
FieldNames == <<"x", "y">>

TypesInit ==
    /\ input = << >>
    /\ chars = Lexer_new.chars
    /\ lookahead = Lexer_new.lookahead
    /\ ast = << >>
    /\ globals = Env_new
    /\ handles = << >>
    /\ out = << >>
    /\ ret = NoCall
    /\ prog = {}
    /\ pc = "types"

\* A base type.
BuildBaseType(type) ==
    /\ pc = "types"
    /\ Len(ast) + 1 <= MaxTypeNodes
    /\ LET t == Type_new(ast, type)
       IN  /\ ast' = t.ast
           /\ handles' = Append(handles, Handle(t, type))
           /\ prog' = prog \cup {t.res.val}
    /\ UNCHANGED <<input, chars, lookahead, globals, out, ret, pc>>

\* elem[] or &elem over a type built before.
BuildCompoundType(type) ==
    /\ pc = "types"
    /\ Len(ast) + 1 <= MaxTypeNodes
    /\ LET t == Type_new(ast, type)
       IN  /\ ast' = t.ast
           /\ handles' = Append(handles, Handle(t, type))
           /\ prog' = prog \cup {t.res.val}
    /\ UNCHANGED <<input, chars, lookahead, globals, out, ret, pc>>

RECURSIVE NameFields(_, _, _)
\* Name::new for the names of the fields of types ts, from the k-th name on:
\* the arena and the (type, name) pairs.
NameFields(a, ts, k) ==
    IF ts = << >> THEN [ast |-> a, fields |-> << >>]
    ELSE Bind(Name_new(a, FieldNames[k]), LAMBDA n :
         Bind(NameFields(n.ast, Tail(ts), k + 1), LAMBDA rest :
         [ast |-> rest.ast, fields |-> <<<<Head(ts), n.res.val>>>> \o rest.fields]))

\* { t1 x, t2 y } over types built before: the names, then the record.
BuildRecordType(ts) ==
    /\ pc = "types"
    /\ Len(ast) + Len(ts) + 1 <= MaxTypeNodes
    /\ LET named == NameFields(ast, ts, 1)
           node == RecordType(named.fields)
           t == Type_new(named.ast, node)
       IN  /\ ast' = t.ast
           /\ handles' = handles
                  \o [k \in 1 .. Len(ts) |->
                         [index |-> Len(ast) + k - 1, node |-> Utf8(FieldNames[k])]]
                  \o <<Handle(t, node)>>
           /\ prog' = prog \cup {t.res.val}
    /\ UNCHANGED <<input, chars, lookahead, globals, out, ret, pc>>

\* The effect of a check of types that returned r.
TypesChecked(op, arg, r) ==
    /\ ast' = r.ast
    /\ ret' = [op |-> op, arg |-> arg, res |-> r.res, pre |-> ast]
    /\ pc' = IF r.res.kind = "Panic" THEN "aborted" ELSE "done"
    /\ UNCHANGED <<input, chars, lookahead, globals, handles, out, prog>>

MatchTypes(t1, t2) ==
    /\ pc = "types"
    /\ TypesChecked("check_matching_types", <<t1, t2>>, check_matching_types(ast, t1, t2))

CheckType(t) ==
    /\ pc = "types"
    /\ TypesChecked("check_type", t, check_type(ast, t))

TypesStep ==
    \/ \E type \in BaseTypes : BuildBaseType(type)
    \/ \E elem \in prog : BuildCompoundType(ArrayType(elem))
    \/ \E elem \in prog : BuildCompoundType(ReferenceType(elem))
    \/ \E ts \in SeqsUpTo(prog, 2) : BuildRecordType(ts)
    \/ \E t1 \in prog, t2 \in prog : MatchTypes(t1, t2)
    \/ \E t \in prog : CheckType(t)

SpecTypes == TypesInit /\ [][TypesStep]_vars

\* ------------------------------------------------------------------------
\* The token stream of an input when peek() is never called
\* ------------------------------------------------------------------------

RECURSIVE TokensFrom(_, _, _)
\* The tokens returned by k calls of next() and no call of peek(), from L on.
TokensFrom(inp, L, k) ==
    IF k = 0 THEN << >>
    ELSE LET n == next(inp, L)
         IN  <<n.tok>> \o TokensFrom(inp, n.lex, k - 1)

\* C1: peek() is transparent.  The tokens the next() calls have returned are
\* the tokens a lexer that never peeks returns for this input; and whenever a
\* token is cached, every peek() returns it and it is the token the following
\* next() returns, which is the one the never-peeking lexer returns there.
C1_PeekTransparent ==
    /\ out = TokensFrom(input, Lexer_new, Len(out))
    /\ LET following == TokensFrom(input, Lexer_new, Len(out) + 1)[Len(out) + 1]
       IN  /\ ret.op = "peek" => ret.tok = following
           /\ peek(input, Lex).tok = following
           /\ peek(input, peek(input, Lex).lex) = peek(input, Lex)
           /\ next(input, peek(input, Lex).lex).tok = peek(input, Lex).tok
           /\ next(input, Lex).tok = following

\* The second token of the input has been peeked and then taken by next().
C1_Witness ==
    /\ ret.op = "next"
    /\ ret.peeked
    /\ Len(out) = 2
    /\ out[1].kind # "EOF"
    /\ out[2].kind = "If"

\* ------------------------------------------------------------------------
\* The parser's claims
\* ------------------------------------------------------------------------

\* The token the parser p is looking at.
Lookahead(inp, p) == peek(inp, p.lex).tok

\* C2: snap(kind).  When the token the parser is looking at has another kind,
\* snap returns an Error and the token stream stays where it was: the next
\* peek() and the next next() return that same token, and so do all later
\* ones.  When the kind matches, snap returns that token and the stream has
\* advanced by exactly one token.
C2_SnapConsumesOnlyOnMatch ==
    ret.op = "snap" =>
        LET tok == Lookahead(input, ret.pre)
            before == TokensFrom(input, ret.pre.lex, Len(input) + 2)
            after == TokensFrom(input, Lex, Len(input) + 1)
        IN  IF tok.kind # ret.arg
            THEN /\ ret.res.kind = "Err"
                 /\ peek(input, Lex).tok = tok
                 /\ next(input, Lex).tok = tok
                 /\ <<tok>> \o Tail(after) = after
                 /\ after = SubSeq(before, 1, Len(input) + 1)
                 /\ ast = ret.pre.ast
            ELSE /\ ret.res = Ok(tok)
                 /\ before = <<tok>> \o after
                 /\ ast = ret.pre.ast

\* A snap has failed on an identifier that is not the first token of the
\* input: the tokens before it have been taken.
C2_Witness ==
    /\ ret.op = "snap"
    /\ ret.res.kind = "Err"
    /\ ret.arg = "Equal"
    /\ Lookahead(input, ret.pre).kind = "Identifier"
    /\ Lookahead(input, ret.pre).start > 0
    /\ lookahead # None

\* C3: in every arena the parser builds, every index a node holds is smaller
\* than the node's own index.
C3_ChildrenBelowParent ==
    \A i \in 0 .. Len(ast) - 1 : \A j \in Children(get(ast, i)) : j >= 0 /\ j < i

\* A declaration node holding the index of its type has been pushed.
C3_Witness ==
    \E i \in 0 .. Len(ast) - 1 :
        /\ get(ast, i).tag = "DeclType"
        /\ Children(get(ast, i)) = {i - 1}

\* C7: parse_decl returns Ok or Err for every input and never aborts; when the
\* first token is not the keyword `type` it returns a parse Error.
C7_ParseDeclNeverAborts ==
    ret.op = "parse_decl" =>
        /\ ret.res.kind \in {"Ok", "Err"}
        /\ Lookahead(input, ret.pre).kind # "Type" => ret.res.kind = "Err"
        /\ pc # "aborted"

\* ------------------------------------------------------------------------
\* The grammar of types (type := refType | recordType | arrayType) as a
\* recogniser over a token sequence.  A match is [ok |-> TRUE, pos |-> the
\* position after the type]; a failure is [ok |-> FALSE, pos |-> the position
\* of the first token that does not fit].
\* ------------------------------------------------------------------------

KindAt(ks, i) == IF i <= Len(ks) THEN ks[i].kind ELSE "EOF"
TokenAt(ks, i) == IF i <= Len(ks) THEN ks[i] ELSE EOF

BaseTypeKinds == {e[1] : e \in BaseTypeTable}

RECURSIVE MatchType(_, _)
RECURSIVE MatchBracketed(_, _)
RECURSIVE MatchArraySuffix(_, _)
RECURSIVE MatchFields(_, _)
RECURSIVE SkipAmpersands(_, _)

\* baseType := 'null' | 'bool' | 'i8' | ... | 'void'
MatchBase(ks, i) ==
    IF KindAt(ks, i) \in BaseTypeKinds THEN [ok |-> TRUE, pos |-> i + 1]
    ELSE [ok |-> FALSE, pos |-> i]

\* bracketedType := '(' type ')' | baseType
MatchBracketed(ks, i) ==
    IF KindAt(ks, i) = "LeftBrace"
    THEN Bind(MatchType(ks, i + 1), LAMBDA t :
             IF ~t.ok THEN t
             ELSE IF KindAt(ks, t.pos) = "RightBrace" THEN [ok |-> TRUE, pos |-> t.pos + 1]
             ELSE [ok |-> FALSE, pos |-> t.pos])
    ELSE MatchBase(ks, i)

\* ('[' ']')*
MatchArraySuffix(ks, i) ==
    IF KindAt(ks, i) # "LeftSquare" THEN [ok |-> TRUE, pos |-> i]
    ELSE IF KindAt(ks, i + 1) = "RightSquare" THEN MatchArraySuffix(ks, i + 2)
    ELSE [ok |-> FALSE, pos |-> i + 1]

\* type ident (',' type ident)* '}'
MatchFields(ks, i) ==
    Bind(MatchType(ks, i), LAMBDA t :
        IF ~t.ok THEN t
        ELSE IF KindAt(ks, t.pos) # "Identifier" THEN [ok |-> FALSE, pos |-> t.pos]
        ELSE IF KindAt(ks, t.pos + 1) = "Comma" THEN MatchFields(ks, t.pos + 2)
        ELSE IF KindAt(ks, t.pos + 1) = "RightCurly" THEN [ok |-> TRUE, pos |-> t.pos + 2]
        ELSE [ok |-> FALSE, pos |-> t.pos + 1])

SkipAmpersands(ks, i) ==
    IF KindAt(ks, i) = "Ampersand" THEN SkipAmpersands(ks, i + 1) ELSE i

MatchType(ks, i) ==
    IF KindAt(ks, i) = "Ampersand" THEN MatchBracketed(ks, SkipAmpersands(ks, i))
    ELSE IF KindAt(ks, i) = "LeftCurly"
         THEN IF KindAt(ks, i + 1) = "RightCurly" THEN [ok |-> TRUE, pos |-> i + 2]
              ELSE MatchFields(ks, i + 1)
    ELSE Bind(MatchBracketed(ks, i), LAMBDA b :
             IF b.ok THEN MatchArraySuffix(ks, b.pos) ELSE b)

\* typeDecl := 'type' ident '=' type ';'
MatchTypeDecl(ks) ==
    IF KindAt(ks, 1) # "Type" THEN [ok |-> FALSE, pos |-> 1]
    ELSE IF KindAt(ks, 2) # "Identifier" THEN [ok |-> FALSE, pos |-> 2]
    ELSE IF KindAt(ks, 3) # "Equal" THEN [ok |-> FALSE, pos |-> 3]
    ELSE Bind(MatchType(ks, 4), LAMBDA t :
             IF ~t.ok THEN t
             ELSE IF KindAt(ks, t.pos) = "SemiColon" THEN [ok |-> TRUE, pos |-> t.pos + 1]
             ELSE [ok |-> FALSE, pos |-> t.pos])

\* The nodes pushed since the arena was `before`.
PushedSince(before) == {ast[i] : i \in Len(before) + 1 .. Len(ast)}

\* C8: parse_decl_type succeeds exactly when the next tokens are `type`, an
\* Identifier, `=`, a type and `;`; otherwise it returns a parse Error whose
\* span is the first token that does not match, and pushes no declaration
\* node.
C8_ParseDeclTypeExactlyOnTypeDecl ==
    ret.op = "parse_decl_type" =>
        LET ks == TokensFrom(input, ret.pre.lex, Len(input) + 1)
            m == MatchTypeDecl(ks)
        IN  IF m.ok
            THEN /\ ret.res.kind = "Ok"
                 /\ get(ast, ret.res.val).tag = "DeclType"
            ELSE /\ ret.res.kind = "Err"
                 /\ ret.res.err.start = TokenAt(ks, m.pos).start
                 /\ ret.res.err.end = Token_end(TokenAt(ks, m.pos))
                 /\ \A n \in PushedSince(ret.pre.ast) : n.tag # "DeclType"

\* The same statement over the types parse_type accepts today, the base types.
C8_HoldsForBaseTypes ==
    (ret.op = "parse_decl_type"
        /\ \A k \in 1 .. Len(input) : input[k] \notin {"&", "[", "]", "(", ")", "{", "}"})
    => C8_ParseDeclTypeExactlyOnTypeDecl

\* ------------------------------------------------------------------------
\* The arena's and the type checker's claims
\* ------------------------------------------------------------------------

\* C4: arena indices are stable.  A push onto an arena of n nodes returns n,
\* makes the length n + 1 and leaves the n nodes as they were; so a handle
\* handed out by Decl::new, Stmt::new, Expr::new, Type::new and Name::new has
\* the length of the arena before its push as index (k - 1 for the k-th
\* handle, as long as only the constructors have pushed), and the node at
\* that index is, and stays, the node it was made for.
C4_IndicesStable ==
    /\ \A k \in 1 .. Len(handles) :
        /\ handles[k].index = handles[k].size - 1
        /\ out = << >> => handles[k].index = k - 1
        /\ InArena(ast, handles[k].index)
        /\ get(ast, handles[k].index) = handles[k].node
    /\ Len(ast) >= Len(handles)
    /\ (out = << >> /\ pc \in {"header", "params", "body", "check"}) =>
           Len(ast) = Len(handles)
    /\ \A node \in {SkipStmt, BoolType} :
        /\ push(ast, node).index = Len(ast)
        /\ Len(push(ast, node).ast) = Len(ast) + 1
        /\ SubSeq(push(ast, node).ast, 1, Len(ast)) = ast

\* Every constructor has handed out a handle, and the type checker has pushed
\* nodes of its own after them.
C4_Witness ==
    /\ pc = "done"
    /\ Len(ast) > Len(handles)
    /\ \A tag \in {"VoidType", "Utf8", "VarExpr", "AssertStmt", "MethodDecl"} :
        \E k \in 1 .. Len(handles) : handles[k].node.tag = tag

VarName(a, expr) == NameText(a, get(a, expr).name)

\* The first statement of the method is `assert v;` for a v that is not a
\* parameter.
FirstStatementAssertsUnbound(a) ==
    /\ prog.stmts # << >>
    /\ get(a, prog.stmts[1]).tag = "AssertStmt"
    /\ get(a, get(a, prog.stmts[1]).expr).tag = "VarExpr"
    /\ VarName(a, get(a, prog.stmts[1]).expr)
           \notin DOMAIN bind_parameters(a, globals, prog.params)

\* C9: checking a VarExpr whose name is not bound gives Err(VariableNotFound),
\* also as the result of TypeChecker::check, and does not abort; checking one
\* whose name is bound gives exactly the bound type.
C9_UnboundVariableIsAnError ==
    /\ (ret.op = "check_expr" /\ get(ret.pre, ret.arg).tag = "VarExpr") =>
        LET env == bind_parameters(ret.pre, globals, prog.params)
            name == VarName(ret.pre, ret.arg)
        IN  IF name \in DOMAIN env
            THEN ret.res = Ok(env[name])
            ELSE /\ ret.res.kind = "Err"
                 /\ ret.res.err.errno.code = "VariableNotFound"
    /\ (ret.op = "check" /\ FirstStatementAssertsUnbound(ret.pre)) =>
        /\ ret.res.kind = "Err"
        /\ ret.res.err.errno.code = "VariableNotFound"
        /\ pc # "aborted"

\* What holds of C9: a bound name yields the type it is bound to, the type of
\* the last parameter of that name.
C9_BoundVariableYieldsItsType ==
    (ret.op = "check_expr" /\ get(ret.pre, ret.arg).tag = "VarExpr"
        /\ ret.res.kind = "Ok") =>
        \E k \in DOMAIN prog.params :
            /\ NameText(ret.pre, prog.params[k].name) = VarName(ret.pre, ret.arg)
            /\ ret.res.val = prog.params[k].declared
            /\ \A later \in k + 1 .. Len(prog.params) :
                NameText(ret.pre, prog.params[later].name) # VarName(ret.pre, ret.arg)

\* C10: check_assert returns Ok exactly when the condition type-checks to
\* BoolType, and an Err, not an abort, when it type-checks to another type.
C10_AssertRequiresBool ==
    ret.op = "check_assert" =>
        LET t == check_expr(ret.pre, bind_parameters(ret.pre, globals, prog.params), ret.arg)
            typed == t.res.kind = "Ok"
        IN  /\ ret.res.kind = "Ok" <=> (typed /\ get(t.ast, t.res.val) = BoolType)
            /\ (typed /\ get(t.ast, t.res.val) # BoolType) =>
                   (ret.res.kind = "Err" /\ pc # "aborted")

\* ------------------------------------------------------------------------
\* The driver's claim
\* ------------------------------------------------------------------------

\* C6: every line is parsed into an arena of its own: when the parsing of a
\* line starts, the arena is empty, whatever the earlier lines were.
C6_FreshArenaPerLine ==
    pc = "parse" => ast = << >>

\* What the driver does instead: the arena only grows from line to line.
C6_ArenaAccumulates ==
    ret.op = "parse_line" =>
        /\ Len(ast) >= Len(ret.pre)
        /\ SubSeq(ast, 1, Len(ret.pre)) = ret.pre

\* The node of the type a successful type-checking result r stands for.
TypeNode(r) == get(r.ast, r.res.val)

\* C11: checking LessThan(lhs, rhs) yields BoolType exactly when lhs
\* type-checks to an IntType and rhs to an IntType of the same signedness and
\* width; when both operands type-check and that is not so, it returns an
\* Err and does not abort.
C11_LessThanRequiresMatchingInts ==
    (ret.op = "check_expr" /\ get(ret.pre, ret.arg).tag = "LessThanExpr") =>
        LET env == bind_parameters(ret.pre, globals, prog.params)
            lhs_t == check_expr(ret.pre, env, get(ret.pre, ret.arg).lhs)
            rhs_t == check_expr(lhs_t.ast, env, get(ret.pre, ret.arg).rhs)
            typed == lhs_t.res.kind = "Ok" /\ rhs_t.res.kind = "Ok"
            matching == /\ typed
                        /\ TypeNode(lhs_t).tag = "IntType"
                        /\ TypeNode(rhs_t) = TypeNode(lhs_t)
        IN  /\ ret.res.kind = "Ok" <=> matching
            /\ ret.res.kind = "Ok" => get(ast, ret.res.val) = BoolType
            /\ (typed /\ ~matching) => (ret.res.kind = "Err" /\ pc # "aborted")

\* What holds of C11: a comparison that type-checks has operands of one and
\* the same integer type, and its type is BoolType.
C11_TypedComparisonHasMatchingInts ==
    (ret.op = "check_expr" /\ get(ret.pre, ret.arg).tag = "LessThanExpr"
        /\ ret.res.kind = "Ok") =>
        LET env == bind_parameters(ret.pre, globals, prog.params)
            lhs_t == check_expr(ret.pre, env, get(ret.pre, ret.arg).lhs)
            rhs_t == check_expr(lhs_t.ast, env, get(ret.pre, ret.arg).rhs)
        IN  /\ TypeNode(lhs_t).tag = "IntType"
            /\ TypeNode(rhs_t) = TypeNode(lhs_t)
            /\ get(ast, ret.res.val) = BoolType

\* ------------------------------------------------------------------------
\* The claims about types
\* ------------------------------------------------------------------------

RECURSIVE IdenticalTypes(_, _, _)
\* Structural identity of the types at t1 and t2: the same primitive (for
\* integers the same signedness and width), arrays or references of identical
\* elements, records of as many fields with pairwise identical types.
IdenticalTypes(a, t1, t2) ==
    LET n1 == get(a, t1)
        n2 == get(a, t2)
    IN  IF n1.tag # n2.tag THEN FALSE
        ELSE IF n1.tag \in {"ArrayType", "ReferenceType"}
             THEN IdenticalTypes(a, n1.elem, n2.elem)
        ELSE IF n1.tag = "RecordType"
             THEN /\ Len(n1.fields) = Len(n2.fields)
                  /\ \A k \in 1 .. Len(n1.fields) :
                         IdenticalTypes(a, n1.fields[k][1], n2.fields[k][1])
        ELSE n1 = n2

\* C12: check_matching_types(t1, t2) returns Ok exactly when t1 and t2 are
\* structurally identical, whatever their indices, and an Err otherwise; so
\* it is reflexive, also for records, and symmetric.
C12_MatchingIsStructuralIdentity ==
    ret.op = "check_matching_types" =>
        LET t1 == ret.arg[1]
            t2 == ret.arg[2]
        IN  /\ ret.res.kind = "Ok" <=> IdenticalTypes(ret.pre, t1, t2)
            /\ ~IdenticalTypes(ret.pre, t1, t2) => ret.res.kind = "Err"
            /\ t1 = t2 => ret.res.kind = "Ok"
            /\ ret.res = check_matching_types(ret.pre, t2, t1).res
            /\ pc # "aborted"

\* What holds of C12: check_matching_types returns Ok only for structurally
\* identical types and aborts otherwise; the call is symmetric and leaves the
\* arena as it was.
C12_MatchingImpliesIdentity ==
    ret.op = "check_matching_types" =>
        /\ ret.res.kind = "Ok" => IdenticalTypes(ret.pre, ret.arg[1], ret.arg[2])
        /\ ret.res.kind \in {"Ok", "Panic"}
        /\ ret.res = check_matching_types(ret.pre, ret.arg[2], ret.arg[1]).res
        /\ ast = ret.pre

\* The names the parameters of the declaration being built bind.
ParameterNames == {NameText(ast, prog.params[k].name) : k \in DOMAIN prog.params}

\* C13: checking never changes the global environment.  Over any sequence of
\* check calls on type and method declarations the globals stay the empty
\* environment the checker was created with, a type declaration adds no
\* binding, and the environment a method body is checked in binds that
\* method's own parameters only, none of an earlier declaration.
C13_GlobalsNeverChange ==
    /\ globals = Env_new
    /\ ret.op = "check" => check(ret.pre, globals, ret.arg).globals = Env_new
    /\ pc = "check" => DOMAIN MethodEnv = ParameterNames

\* C13 witness: a method with a parameter has been checked, and after it a
\* second declaration on the same checker.
C13_Witness ==
    /\ Len(out) = 2
    /\ get(ast, out[1].decl).tag = "MethodDecl"
    /\ get(ast, out[1].decl).params # << >>
    /\ out[1].res = Ok(Unit)
    /\ ret.op = "check" /\ ret.arg = out[2].decl
    /\ globals = Env_new

\* The parameters of the method being built whose name has the given text.
ParametersNamed(a, text) ==
    {k \in DOMAIN prog.params : NameText(a, prog.params[k].name) = text}

\* The body of the method being built is the one statement `assert v;` and v
\* has the text of the name of a parameter declared bool.
AssertsBoolParameter(a) ==
    /\ Len(prog.stmts) = 1
    /\ get(a, prog.stmts[1]).tag = "AssertStmt"
    /\ get(a, get(a, prog.stmts[1]).expr).tag = "VarExpr"
    /\ LET named == ParametersNamed(a, VarName(a, get(a, prog.stmts[1]).expr))
       IN  /\ named # {}
           /\ \A k \in named : get(a, prog.params[k].declared) = BoolType

RECURSIVE ArenaAfter(_, _, _, _)
\* The arena after check_stmt has been called on the first k statements, one
\* after the other.
ArenaAfter(a, env, stmts, k) ==
    IF k = 0 THEN a
    ELSE check_stmt(ArenaAfter(a, env, stmts, k - 1), env, stmts[k]).ast

\* What check_stmt returns for the k-th statement when called after the k - 1
\* statements before it.
StatementOutcome(a, env, stmts, k) ==
    check_stmt(ArenaAfter(a, env, stmts, k - 1), env, stmts[k])

\* The statements of the list on which check_stmt does not return Ok.
Failing(a, env, stmts) ==
    {k \in DOMAIN stmts : StatementOutcome(a, env, stmts, k).res.kind # "Ok"}

\* C15: check_block checks the statements in list order and stops at the
\* first failure.  Its outcome is the outcome of check_stmt on the first
\* statement that fails, the arena is the one that statement's check left (no
\* later statement was checked), and it returns Ok exactly when check_stmt
\* returns Ok for every statement; an empty block and skip succeed.
C15_BlockStopsAtFirstFailure ==
    /\ ret.op = "check_block" =>
        LET env == MethodEnv
            failing == Failing(ret.pre, env, ret.arg)
        IN  /\ ret.res = Ok(Unit) <=> failing = {}
            /\ failing = {} => ast = ArenaAfter(ret.pre, env, ret.arg, Len(ret.arg))
            /\ \A k \in failing :
                (\A j \in failing : k <= j) =>
                    /\ ret.res = StatementOutcome(ret.pre, env, ret.arg, k).res
                    /\ ast = StatementOutcome(ret.pre, env, ret.arg, k).ast
    /\ check_block(ast, MethodEnv, << >>) = [res |-> Ok(Unit), ast |-> ast]
    /\ (ret.op = "check_stmt" /\ get(ret.pre, ret.arg) = SkipStmt) =>
        ret.res = Ok(Unit) /\ ast = ret.pre

\* C15 witness: check_block has returned the Err of a first statement that
\* fails, and the statement after it, whose check would have pushed a type,
\* has left no trace in the arena.
C15_Witness ==
    /\ ret.op = "check_block"
    /\ Len(ret.arg) = 2
    /\ ret.res.kind = "Err"
    /\ Failing(ret.pre, MethodEnv, ret.arg) = {1}
    /\ check_stmt(ret.pre, MethodEnv, ret.arg[2]).ast # ret.pre
    /\ ast = ret.pre

\* Values of an integer literal, the ends of the i32 range among them.
IntLiteralValues == {-2147483647 - 1, -1, 0, 1, 256, 2147483647}

\* C16: checking a BoolExpr yields a type whose node is BoolType and checking
\* an IntExpr one whose node is IntType(true, 32): for every literal value,
\* in the empty environment as in the environment of the method, and for a
\* literal that is an operand of a comparison as for one that stands alone.
C16_LiteralTypes ==
    /\ \A env \in {Env_new, MethodEnv} :
        /\ \A lit \in BOOLEAN :
            /\ check_boolean_literal(ast, env, lit).res.kind = "Ok"
            /\ TypeNode(check_boolean_literal(ast, env, lit)) = BoolType
            /\ check_expr(Expr_new(ast, BoolExpr(lit)).ast, env, Len(ast)).res.kind = "Ok"
            /\ TypeNode(check_expr(Expr_new(ast, BoolExpr(lit)).ast, env, Len(ast))) = BoolType
        /\ \A lit \in IntLiteralValues :
            /\ check_integer_literal(ast, env, lit).res.kind = "Ok"
            /\ TypeNode(check_integer_literal(ast, env, lit)) = IntType(TRUE, 32)
            /\ check_expr(Expr_new(ast, IntExpr(lit)).ast, env, Len(ast)).res.kind = "Ok"
            /\ TypeNode(check_expr(Expr_new(ast, IntExpr(lit)).ast, env, Len(ast)))
                   = IntType(TRUE, 32)
    /\ (ret.op = "check_expr" /\ get(ret.pre, ret.arg).tag = "BoolExpr") =>
        ret.res.kind = "Ok" /\ get(ast, ret.res.val) = BoolType
    /\ (ret.op = "check_expr" /\ get(ret.pre, ret.arg).tag = "IntExpr") =>
        ret.res.kind = "Ok" /\ get(ast, ret.res.val) = IntType(TRUE, 32)

\* C16 witness: an integer literal that is an operand of a comparison has
\* been checked in an environment that binds a parameter.
C16_Witness ==
    /\ ret.op = "check_expr"
    /\ get(ret.pre, ret.arg).tag = "IntExpr"
    /\ \E e \in prog.exprs :
        /\ get(ret.pre, e).tag = "LessThanExpr"
        /\ ret.arg \in {get(ret.pre, e).lhs, get(ret.pre, e).rhs}
    /\ MethodEnv # Env_new
    /\ get(ast, ret.res.val) = IntType(TRUE, 32)

\* The characters of the input not yet scanned when the lexer was at offset
\* from.
Unscanned(from) == {input[o + 1] : o \in from .. Len(input) - 1}

\* The first character at or after offset from that is not whitespace, if any.
FirstVisible(from) ==
    LET visible == {o \in from .. Len(input) - 1 : input[o + 1] \notin WhitespaceChars}
    IN  IF visible = {} THEN None
        ELSE Some(input[(CHOOSE o \in visible : \A q \in visible : o <= q) + 1])

\* C17: next() or peek() returns the EOF token only if, at the time of the
\* call, every character of the input not yet scanned is whitespace.  (A call
\* that hands out the token an earlier peek() kept scans nothing; the claim is
\* about the call that scanned.)
C17_EofOnlyAtEndOfInput ==
    (ret.op \in {"peek", "next"} /\ ~ret.peeked /\ ret.tok = EOF) =>
        Unscanned(ret.from) \subseteq WhitespaceChars

\* What holds of C17: a scanning call returns EOF exactly when nothing but
\* whitespace is left or the first character that is not whitespace is
\* neither a digit, nor an identifier start, nor one of the operators.
C17_EofAtEndOrUnknownCharacter ==
    (ret.op \in {"peek", "next"} /\ ~ret.peeked) =>
        (ret.tok = EOF <=>
            \/ FirstVisible(ret.from) = None
            \/ FirstVisible(ret.from)[1] \notin
                   DigitChars \cup IdentifierMiddleChars \cup {e[1] : e \in OperatorTable})

\* The token kinds of the enumeration that stand for an operator of two
\* characters.
MultiCharacterKinds ==
    {"AmpersandAmpersand", "BarBar", "EqualEqual", "LeftAngleEquals",
     "RightAndleEquals", "ShreakEquals", "MinusGreater", "RightSlashSlash"}

\* The token of the one operator character at offset o of the input.
OneCharacterToken(o) ==
    Token((CHOOSE e \in OperatorTable : e[1] = input[o + 1])[2], o, <<input[o + 1]>>)

\* The tokens the lexer has returned or keeps as lookahead.
TokensSeen ==
    SeqToSet(out) \cup SeqToSet(lookahead)
        \cup (IF ret.op \in {"peek", "next"} THEN {ret.tok} ELSE {})

\* C18: the lexer never emits a token of a two-character operator kind.  Every
\* token of punctuation is the one character at its start offset with the kind
\* the operator table gives that character, so the k-th token of an input of k
\* or more operator characters without a blank is its k-th character: `==`
\* gives two Equal tokens and `&&` two Ampersand tokens.
C18_NoMultiCharacterOperators ==
    /\ \A tok \in TokensSeen :
        /\ tok.kind \notin MultiCharacterKinds
        /\ tok # EOF =>
            /\ tok.start < Len(input)
            /\ tok = OneCharacterToken(tok.start)
    /\ " " \notin SeqToSet(input) =>
        \A k \in 1 .. Len(out) : k <= Len(input) => out[k] = OneCharacterToken(k - 1)

\* C18 witness: `==` has been read as two Equal tokens, and `&&` as two
\* Ampersand tokens.
C18_Witness ==
    \/ /\ input = <<"=", "=">>
       /\ out = <<Token("Equal", 0, <<"=">>), Token("Equal", 1, <<"=">>)>>
    \/ /\ input = <<"&", "&">>
       /\ out = <<Token("Ampersand", 0, <<"&">>), Token("Ampersand", 1, <<"&">>)>>

\* The keywords as the language lists them.
ListedKeywords ==
    { <<"a","s","s","e","r","t">>, <<"b","o","o","l">>,
      <<"b","r","e","a","k">>, <<"c","a","s","e">>,
      <<"c","o","n","t","i","n","u","e">>, <<"d","e","f","a","u","l","t">>,
      <<"d","e","l","e","t","e">>, <<"e","l","s","e">>,
      <<"f","a","l","s","e">>, <<"f","o","r">>, <<"i","f">>, <<"i","8">>,
      <<"i","1","6">>, <<"i","3","2">>, <<"i","6","4">>, <<"n","e","w">>,
      <<"n","u","l","l">>, <<"r","e","t","u","r","n">>, <<"s","k","i","p">>,
      <<"s","w","i","t","c","h">>, <<"t","r","u","e">>, <<"t","y","p","e">>,
      <<"w","h","i","l","e">>, <<"u","8">>, <<"u","1","6">>, <<"u","3","2">>,
      <<"u","6","4">>, <<"v","o","i","d">> }

\* The tokens of an identifier-shaped run among those seen.
WordTokens ==
    {tok \in TokensSeen : tok.content # << >> /\ is_identifier_start(tok.content[1])}

\* C19: an identifier-shaped run gets a keyword kind exactly when its text is
\* one of the listed keywords, compared case-sensitively; every other run
\* (abc, If, do, Do, i7) is an Identifier.
C19_KeywordsAreTheListedOnes ==
    \A tok \in WordTokens :
        /\ tok.kind # "Identifier" <=> tok.content \in ListedKeywords
        /\ tok.kind # "Identifier" => <<tok.content, tok.kind>> \in KeywordTable

\* What holds of C19: the same for every run but Do, which gets the kind Do.
C19_KeywordsAreTheListedOnesAndDo ==
    \A tok \in WordTokens :
        /\ tok.kind # "Identifier" <=> tok.content \in ListedKeywords \cup {<<"D", "o">>}
        /\ tok.kind # "Identifier" => <<tok.content, tok.kind>> \in KeywordTable

\* The content of the token is the longest run of accepted characters that
\* begins at its start offset.
LongestRun(tok, accepted) ==
    /\ tok.content # << >>
    /\ Token_end(tok) <= Len(input)
    /\ tok.content = Slice(input, tok.start, Token_end(tok))
    /\ SeqToSet(tok.content) \subseteq accepted
    /\ Token_end(tok) < Len(input) => input[Token_end(tok) + 1] \notin accepted

\* C20: token runs are maximal.  The content of every Integer token is the
\* longest run of decimal digits beginning at its start offset, and the
\* content of every Identifier or keyword token is the longest run of letters,
\* digits and underscores beginning at its start offset, whose first character
\* is a letter or an underscore.
C20_RunsAreMaximal ==
    \A tok \in TokensSeen :
        /\ tok.kind = "Integer" => LongestRun(tok, DigitChars)
        /\ (tok.kind = "Identifier" \/ \E e \in KeywordTable : e[2] = tok.kind) =>
            /\ LongestRun(tok, IdentifierMiddleChars)
            /\ is_identifier_start(tok.content[1])
        /\ (tok.content # << >> /\ is_digit(tok.content[1])) => tok.kind = "Integer"

\* C20 witness: digits followed by a letter and an underscore have been read
\* as an Integer of two digits and an Identifier of two characters.
C20_Witness ==
    /\ Len(out) = 2
    /\ out[1] = Token("Integer", 0, <<"1", "1">>)
    /\ out[2].kind = "Identifier"
    /\ out[2].start = 2
    /\ Len(out[2].content) = 2
    /\ "_" \in SeqToSet(out[2].content)

\* The token is the first token of the core, moved right by the whitespace in
\* front of it.
IsCoreToken(tok) ==
    LET alone == next(prog.core, Lexer_new).tok
    IN  /\ tok.kind = alone.kind
        /\ tok.content = alone.content
        /\ tok.start = IF alone = EOF THEN EOF.start ELSE alone.start + Len(prog.before)

\* C21: whitespace is skipped and never part of a token.  On an input of
\* whitespace only (spaces, tabs, newlines, or nothing) the first peek() and
\* the first next() return EOF; whitespace before or after a token changes
\* neither its kind nor its content, and after the one token comes EOF.
C21_WhitespaceSkipped ==
    /\ \A tok \in TokensSeen : SeqToSet(tok.content) \cap WhitespaceChars = {}
    /\ (ret.op = "peek" /\ out = << >>) => IsCoreToken(ret.tok)
    /\ out # << >> => IsCoreToken(out[1])
    /\ \A k \in 2 .. Len(out) : out[k] = EOF
    /\ prog.core = << >> =>
        /\ peek(input, Lexer_new).tok = EOF
        /\ next(input, Lexer_new).tok = EOF
        /\ \A tok \in TokensSeen : tok = EOF

\* C21 witness: the keyword after a newline and before a tab has been read
\* as it is read alone, and EOF after it.
C21_Witness ==
    /\ prog.core = <<"i", "f">>
    /\ "\n" \in SeqToSet(prog.before)
    /\ "\t" \in SeqToSet(prog.after)
    /\ out = <<Token("If", Len(prog.before), <<"i", "f">>), EOF>>

\* The bit width a keyword iN or uN names.
WidthOf(digits) ==
    IF digits = <<"8">> THEN 8
    ELSE IF digits = <<"1", "6">> THEN 16
    ELSE IF digits = <<"3", "2">> THEN 32
    ELSE IF digits = <<"6", "4">> THEN 64
    ELSE 0

\* The node of a base-type keyword by its text; no node for any other text.
BaseTypeOf(content) ==
    IF content = <<"b", "o", "o", "l">> THEN Some(BoolType)
    ELSE IF content = <<"n", "u", "l", "l">> THEN Some(NullType)
    ELSE IF content = <<"v", "o", "i", "d">> THEN Some(VoidType)
    ELSE IF Len(content) >= 2 /\ content[1] \in {"i", "u"} /\ WidthOf(Tail(content)) # 0
    THEN Some(IntType(content[1] = "i", WidthOf(Tail(content))))
    ELSE None

\* C22: parse_type_base maps bool to BoolType, null to NullType, void to
\* VoidType, iN to IntType(true, N) and uN to IntType(false, N) for N in 8,
\* 16, 32, 64; it then pushes exactly one node, whose index it returns, and
\* consumes exactly one token.  For any other lookahead token it returns a
\* parse Error, pushes no node and consumes no token.
C22_ParseTypeBase ==
    ret.op = "parse_type_base" =>
        LET tok == Lookahead(input, ret.pre)
            before == TokensFrom(input, ret.pre.lex, Len(input) + 2)
            after == TokensFrom(input, Lex, Len(input) + 1)
        IN  IF BaseTypeOf(tok.content) # None
            THEN /\ ret.res = Ok(Len(ret.pre.ast))
                 /\ ast = Append(ret.pre.ast, BaseTypeOf(tok.content)[1])
                 /\ before = <<tok>> \o after
            ELSE /\ ret.res.kind = "Err"
                 /\ ast = ret.pre.ast
                 /\ peek(input, Lex).tok = tok
                 /\ after = SubSeq(before, 1, Len(input) + 1)

\* C22 witness: after a first keyword, u16 has been parsed to
\* IntType(false, 16) at index 1, and the parser is at the end of the input.
C22_Witness ==
    /\ ret.op = "parse_type_base"
    /\ Lookahead(input, ret.pre).content = <<"u", "1", "6">>
    /\ ret.res = Ok(1)
    /\ get(ast, 1) = IntType(FALSE, 16)
    /\ peek(input, Lex).tok = EOF

\* The tokens the parser p has in front of it, up to the end of the input.
TokensAhead(p) == TokensFrom(input, p.lex, Len(input) + 1)

\* The number of tokens of the given kind the sequence begins with.
LeadingRun(toks, kind) ==
    LET others == {k \in DOMAIN toks : toks[k].kind # kind}
    IN  IF others = {} THEN Len(toks)
        ELSE (CHOOSE k \in others : \A j \in others : k <= j) - 1

\* The arena a extended by node and n ReferenceType wrappers around it, each
\* referring to the node pushed immediately before it.
WithReferences(a, node, n) ==
    a \o <<node>> \o [k \in 1 .. n |-> ReferenceType(Len(a) + k - 1)]

\* C23: a type source of n >= 1 leading `&` and a base type B parses to B
\* followed by n ReferenceType nodes, each wrapping the node pushed
\* immediately before it; parse_type returns the last of them.
C23_ReferencesNest ==
    ret.op = "parse_type" =>
        LET toks == TokensAhead(ret.pre)
            n == LeadingRun(toks, "Ampersand")
        IN  (n >= 1 /\ n < Len(toks) /\ BaseTypeOf(toks[n + 1].content) # None) =>
                /\ ret.res = Ok(Len(ret.pre.ast) + n)
                /\ ast = WithReferences(ret.pre.ast, BaseTypeOf(toks[n + 1].content)[1], n)

\* The number of `[` `]` pairs the tokens from position from on begin with.
ArrayPairs(toks, from) ==
    LET pairs == {k \in 0 .. Len(toks) :
                    \A j \in 1 .. k :
                        /\ from + 2 * j - 1 <= Len(toks)
                        /\ toks[from + 2 * j - 2].kind = "LeftSquare"
                        /\ toks[from + 2 * j - 1].kind = "RightSquare"}
    IN  CHOOSE k \in pairs : \A j \in pairs : j <= k

\* The arena a extended by node and k ArrayType nodes, each wrapping the node
\* built immediately before it.
WithArrays(a, node, k) ==
    a \o <<node>> \o [j \in 1 .. k |-> ArrayType(Len(a) + j - 1)]

\* C24: a type source of a base type B followed by k >= 1 `[]` pairs parses
\* to B followed by k ArrayType nodes, each wrapping the node built
\* immediately before it; parse_type returns the last of them and has
\* consumed the brackets.
C24_ArraysNest ==
    ret.op = "parse_type" =>
        LET toks == TokensAhead(ret.pre)
            k == ArrayPairs(toks, 2)
        IN  (BaseTypeOf(toks[1].content) # None /\ k >= 1) =>
                /\ ret.res = Ok(Len(ret.pre.ast) + k)
                /\ ast = WithArrays(ret.pre.ast, BaseTypeOf(toks[1].content)[1], k)
                /\ TokensAhead(Par) = SubSeq(toks, 2 * k + 2, Len(toks))
                       \o [j \in 1 .. 2 * k + 1 |-> EOF]

\* The tokens begin with a record type of k fields, each a base type and an
\* identifier.
IsRecordOf(toks, k) ==
    /\ 3 * k + 1 <= Len(toks)
    /\ toks[1].kind = "LeftCurly"
    /\ \A j \in 1 .. k :
        /\ BaseTypeOf(toks[3 * j - 1].content) # None
        /\ toks[3 * j].kind = "Identifier"
        /\ toks[3 * j + 1].kind = IF j < k THEN "Comma" ELSE "RightCurly"

\* The arena a extended by the type and the name of each of the k fields, in
\* source order, and the RecordType node that lists them.
WithRecord(a, toks, k) ==
    a \o [i \in 1 .. 2 * k |->
            IF i % 2 = 1 THEN BaseTypeOf(toks[3 * ((i + 1) \div 2) - 1].content)[1]
            ELSE Utf8(toks[3 * (i \div 2)].content)]
      \o <<RecordType([j \in 1 .. k |-> <<Len(a) + 2 * j - 2, Len(a) + 2 * j - 1>>])>>

\* C25: a record type {T1 f1, ..., Tk fk} parses to one RecordType node whose
\* field list has the k (type, name) pairs in source order, the type and name
\* node of every field pushed before the record node, which parse_type
\* returns.
C25_RecordFieldsInOrder ==
    ret.op = "parse_type" =>
        \A k \in 1 .. Len(input) :
            IsRecordOf(TokensAhead(ret.pre), k) =>
                /\ ret.res = Ok(Len(ret.pre.ast) + 2 * k)
                /\ ast = WithRecord(ret.pre.ast, TokensAhead(ret.pre), k)

\* The node satisfies the category predicate of the kind of handle.
InCategory(kind, a, node) ==
    IF kind = "Decl" THEN Decl_is(node)
    ELSE IF kind = "Stmt" THEN Stmt_is(node)
    ELSE IF kind = "Expr" THEN Expr_is(node)
    ELSE IF kind = "Type" THEN Type_is(a, node) = "true"
    ELSE node.tag = "Utf8"

\* What holds of C26: every handle X::new has produced refers to a node of
\* X's category (for Type recursively, in the arena as it is now), and X::new
\* for a node outside the category fails, pushing nothing.
C26_ConstructorsValidate ==
    /\ \A k \in DOMAIN handles :
        InCategory(handles[k].kind, ast, get(ast, handles[k].index))
    /\ (ret.op = "new" /\ ~InCategory(ret.kind, ret.pre, ret.arg)) =>
        /\ ret.res.kind = "Panic"
        /\ ast = ret.pre

\* C26: every Decl, Stmt, Expr and Type handle produced by X::new or by the
\* conversion of an arena reference into X refers to a node of X's category,
\* and producing a handle of category X for a node outside it fails.
C26_HandlesAreOfTheirCategory ==
    /\ C26_ConstructorsValidate
    /\ (ret.op = "from" /\ ret.kind \in {"Decl", "Stmt", "Expr", "Type"}) =>
        IF InCategory(ret.kind, ast, get(ast, ret.arg))
        THEN ret.res = Ok(ret.arg)
        ELSE ret.res.kind # "Ok"

\* The productions that look at one token only.
OneTokenProductions == {"snap", "parse_identifier", "parse_type_base", "parse_type"}

C28_ErrorInsideSource ==
    (ret.op # "none" /\ ret.res.kind = "Err") =>
        /\ 0 <= ret.res.err.start
        /\ ret.res.err.start <= ret.res.err.end
        /\ ret.res.err.end <= Len(input)

\* What holds of C28: start <= end, and the span lies inside the source text
\* unless the production failed at the EOF token, whose span is the largest
\* offset there is.
C28_ErrorInsideSourceOrAtEof ==
    (ret.op # "none" /\ ret.res.kind = "Err") =>
        /\ 0 <= ret.res.err.start
        /\ ret.res.err.start <= ret.res.err.end
        /\ IF peek(input, Lex).tok = EOF
           THEN ret.res.err.start = USIZE_MAX /\ ret.res.err.end = USIZE_MAX
           ELSE ret.res.err.end <= Len(input)

RECURSIVE WithoutLeadingZeros(_)
\* The run of digits without its leading zeros; one zero is left of a run of
\* zeros.
WithoutLeadingZeros(digits) ==
    IF Len(digits) > 1 /\ Head(digits) = "0" THEN WithoutLeadingZeros(Tail(digits))
    ELSE digits

RECURSIVE Decimal(_)
\* The decimal digits that denote the natural number v.
Decimal(v) ==
    IF v < 10 THEN <<ToString(v)>>
    ELSE Decimal(v \div 10) \o <<ToString(v % 10)>>

\* C29: for every token of kind Integer, as_int returns the value its digits
\* denote, a 32-bit signed integer, and does not abort.
C29_AsIntReturnsTheValue ==
    (ret.op = "as_int" /\ ret.tok.kind = "Integer") =>
        /\ ret.res.kind = "Ok"
        /\ ret.res.val \in 0 .. I32_MAX
        /\ Decimal(ret.res.val) = WithoutLeadingZeros(ret.tok.content)
        /\ pc # "aborted"

\* What holds of C29: as_int returns the value the digits denote when it
\* returns, and it returns for every run that has at most nine digits after
\* its leading zeros.
C29_AsIntReturnsTheValueOrAborts ==
    (ret.op = "as_int" /\ ret.tok.kind = "Integer") =>
        /\ ret.res.kind \in {"Ok", "Panic"}
        /\ ret.res.kind = "Ok" =>
            /\ ret.res.val \in 0 .. I32_MAX
            /\ Decimal(ret.res.val) = WithoutLeadingZeros(ret.tok.content)
        /\ Len(WithoutLeadingZeros(ret.tok.content)) < 10 => ret.res.kind = "Ok"

\* The calls of next() it takes at most, from the lexer as it is, to have
\* every character scanned and the lookahead handed out.
CallsLeft == (Len(input) - chars) + (IF lookahead = None THEN 0 ELSE 1)

\* C30: the lexer makes progress and terminates.  A next() with an empty
\* lookahead consumes at least one character, or finds none left and returns
\* EOF; the offset never passes the end of the input; for an input of n
\* characters at most n calls of next() return a token that is not EOF; and
\* after as many calls as there are characters left every next() returns EOF.
C30_LexerTerminates ==
    /\ chars \in 0 .. Len(input)
    /\ (ret.op \in {"peek", "next"} /\ ~ret.peeked) =>
        \/ chars > ret.from
        \/ ret.from = Len(input) /\ chars = ret.from /\ ret.tok = EOF
    /\ Cardinality({k \in DOMAIN out : out[k] # EOF}) <= Len(input)
    /\ LET coming == TokensFrom(input, Lex, Len(input) + 3)
       IN  \A k \in CallsLeft + 1 .. Len(input) + 3 : coming[k] = EOF

\* C30 witness: an input of four characters with a blank in it has been read
\* to its end by calls of next(), two of them or more returning a token, and
\* the last call found nothing left.
C30_Witness ==
    /\ Len(input) = 4
    /\ " " \in SeqToSet(input)
    /\ Cardinality({k \in DOMAIN out : out[k] # EOF}) >= 2
    /\ ret.op = "next" /\ ~ret.peeked
    /\ ret.from = Len(input)
    /\ ret.tok = EOF

=============================================================================
